---- MODULE Spec2Model ----
(***************************************************************************)
(* Verification model of the StyleLabor launcher core.                     *)
(*                                                                         *)
(*  - the concurrent download manager (utils/download.rs, utils/hash.rs)   *)
(*  - the descriptor loader and merge (commands/profile.rs)                *)
(*  - the platform rule evaluation (commands/profile.rs, neoforge.rs)      *)
(***************************************************************************)
EXTENDS Integers, Sequences, FiniteSets, TLC

(***************************************************************************)
(* Bounds of the model.                                                    *)
(***************************************************************************)
NumTasks == 2
MaxWidth == 1
ChunksPerFile == 2
MaxDepth == 2
MaxRules == 3
MaxLines == 1
MaxEntries == 3
MaxJvmArgs == 3
MaxGameArgs == 3
MaxCustom == 2
MaxBuilds == 2
NumRuns == 2

VARIABLES
    \* ---- download manager -------------------------------------------
    tasks,      \* the batch: task index -> DownloadTask
    width,      \* concurrent_downloads given to DownloadManager::new
    permits,    \* free permits of the semaphore
    holding,    \* task index -> the task's _permit is alive
    fs,         \* the file system: path -> file
    initFs,     \* the file system when the batch was started
    pc,         \* task index -> position inside download_file
    attempt,    \* task index -> loop variable of the retry loop
    body,       \* task index -> the response body being streamed
    offset,     \* task index -> chunks written through the open handle
    last_error, \* task index -> the error of the last failed attempt
    mismatches, \* task index -> attempts that ended in a digest mismatch
    lastSeen,   \* task index -> what the task's last verification read
    requests,   \* task index -> HTTP requests issued
    result,     \* task index -> what download_file returned
    progressMode, \* TRUE: download_many_with_progress, FALSE: download_many
    completed,  \* the AtomicUsize of download_many_with_progress
    progress,   \* the on_progress invocations, in order
    returned,   \* what the batch call returned (join_all)
    \* ---- descriptor resolver ----------------------------------------
    store,      \* version id -> the version json in the versions directory
    loadedId,   \* the version id load_merged_version_json was called with
    merged,     \* what load_merged_version_json returned
    \* ---- rule evaluation --------------------------------------------
    rules,      \* the "rules" array of a library or argument
    currentOs,  \* the target_os the launcher was built for
    verdict,    \* implementation -> what its rules_allow returned
    allowed,    \* what MinecraftInstaller::check_library_rules returned
    \* ---- launch_profile and the process supervisor -------------------
    loader,     \* profile.loader
    library,    \* the natives library of the version: classifier and jar
    lpc,        \* position inside launch_profile
    launched,   \* what launch_profile returned
    extracted,  \* natives directory -> libraries unpacked into it
    libraryPath, \* the directory named by -Djava.library.path
    sc,         \* mode -> position inside spawn_and_check
    ret,        \* mode -> what spawn_and_check returned
    proc,       \* mode -> state of the OS process of that attempt
    code,       \* mode -> exit code of the process
    windowExit, \* mode -> how the process exited inside the grace window
    pipe,       \* mode -> stream -> lines written and not yet read
    written,    \* mode -> stream -> lines the process has written
    reader,     \* mode -> stream -> the reader task was started
    waiter,     \* mode -> position of the exit waiter task
    status,     \* mode -> what child.wait() returned to the waiter
    logSeen,    \* mode -> the latest.log the waiter read
    events,     \* the events emitted on the app handle, in order
    \* ---- launch assembler --------------------------------------------
    target_os,  \* cfg!(target_os) of the build
    template,   \* arguments.jvm and arguments.game of the merged json
    context,    \* the runtime context: preset, custom flags, variables
    cp_input,   \* the classpath build_classpath_from_version_json returns
    apc,        \* position inside build_args_from_version_json
    classpath,  \* the local `classpath`
    jvm_args,   \* the local `jvm_args`
    game_args,  \* the local `game_args`
    args,       \* the vector build_args_from_version_json returns
    \* ---- loader installers -------------------------------------------
    installer,  \* the loader installer that is called
    versions,   \* the loader builds the metadata endpoint lists
    loader_version, \* the loader version the caller asks for, if any
    ipos,       \* position inside the installer
    version,    \* the build the installer has picked
    fetched,    \* download tasks the installer has handed to the manager
    installed,  \* what the installer returned
    \* ---- profile creation and installation ---------------------------
    command,    \* run -> the command that was invoked and its request
    profiles,   \* state.profiles.profiles, the in-memory profile list
    saved,      \* the profiles file written by save_profiles
    dirs,       \* the profile directories that exist
    rpc,        \* run -> position inside the command or its install task
    rid,        \* run -> the id of the run's profile (local `id`)
    emitted,    \* run -> the progress events the run has emitted
    cret,       \* run -> what the command returned
    task,       \* run -> result of create_profile's background task
    mcret,      \* run -> what MinecraftInstaller::install returned
    lib_results, \* run -> the results of the libraries' download_many
    jar,        \* the version jar versions/<v>/<v>.jar
    neoforge_json, \* the NeoForge version json exists
    launchOf    \* run -> what launch_profile of the run's profile did

dlVars == <<tasks, width, permits, holding, fs, initFs, pc, attempt, body,
            offset, last_error, mismatches, lastSeen, requests, result,
            progressMode, completed, progress, returned>>

mergeVars == <<store, loadedId, merged>>

ruleVars == <<rules, currentOs, verdict, allowed>>

launchVars == <<loader, library, lpc, launched, extracted, libraryPath, sc, ret,
                proc, code, windowExit, pipe, written, reader, waiter, status,
                logSeen, events>>

asmVars == <<target_os, template, context, cp_input, apc, classpath, jvm_args,
             game_args, args>>

loaderVars == <<installer, versions, loader_version, ipos, version, fetched,
                installed>>

instVars == <<command, profiles, saved, dirs, rpc, rid, emitted, cret, task,
              mcret, lib_results, jar, neoforge_json, launchOf>>

vars == <<dlVars, mergeVars, ruleVars, launchVars, asmVars, loaderVars, instVars>>

(***************************************************************************)
(* Files, contents and digests.                                            *)
(***************************************************************************)
Contents == {"A", "B"}

Paths == { <<"libraries", "a.jar">>, <<"libraries", "b.jar">> }

TaskIds == 1..NumTasks

\* The complete byte content c, as the chunks the server streams.
Whole(c) == [k \in 1..ChunksPerFile |-> <<c, k>>]

ZeroChunk == <<"zero", 0>>

NoFile == [exists |-> FALSE, data |-> <<>>]

FileOf(d) == [exists |-> TRUE, data |-> d]

IsWhole(f) == \E c \in Contents : f.data = Whole(c)

\* A write of one chunk at position off+1 through a handle whose cursor is
\* at off: the file is extended (zero-filled) when it is shorter.
RECURSIVE ZeroFill(_, _)
ZeroFill(d, n) == IF Len(d) >= n THEN d ELSE ZeroFill(Append(d, ZeroChunk), n)

WriteAt(d, off, ch) ==
    LET padded == ZeroFill(d, off + 1)
    IN  [k \in 1..Len(padded) |-> IF k = off + 1 THEN ch ELSE padded[k]]

NoDigest == <<"none", <<>>>>

compute_sha1(d) == <<"sha1", d>>

sha512_hex(d) == <<"sha512", d>>

verify_sha1(d, expected) == compute_sha1(d) = expected

verify_sha512(d, expected) == sha512_hex(d) = expected

NoSize == -1

\* Option<u64> / Option<String> fields of DownloadTask; the url is whatever
\* the server answers on it, which SendRequest draws.
DownloadTask ==
    { [path |-> p, size |-> sz, sha1 |-> s1, sha512 |-> s5] :
        p \in Paths,
        sz \in {NoSize, ChunksPerFile},
        s1 \in {NoDigest, compute_sha1(Whole("A"))},
        s5 \in {NoDigest} \cup {sha512_hex(Whole(c)) : c \in Contents} }

\* The task of a library artifact: size and sha1 of the manifest, no sha512.
LibraryTask ==
    [path |-> <<"libraries", "a.jar">>, size |-> ChunksPerFile,
     sha1 |-> compute_sha1(Whole("A")), sha512 |-> NoDigest]

\* The shapes of task the batches are drawn from: a size is given together
\* with a sha1 or alone.
TaskShapes ==
    { t \in DownloadTask :
        /\ t.size # NoSize => t.sha512 = NoDigest
        /\ t.sha1 # NoDigest /\ t.sha512 = NoDigest => t.size # NoSize
        /\ t.sha1 = NoDigest => t.sha512 # sha512_hex(Whole("B")) }

\* The batches handed to download_many: a library artifact first.
Batches == { b \in [TaskIds -> TaskShapes] : b[1] = LibraryTask }

InitialFiles == {NoFile, FileOf(Whole("A"))}

HasDigest(t) == t.sha1 # NoDigest \/ t.sha512 # NoDigest

\* The data matches every digest the task carries.
MatchesAll(t, d) ==
    /\ t.sha1 # NoDigest => verify_sha1(d, t.sha1)
    /\ t.sha512 # NoDigest => verify_sha512(d, t.sha512)

file_name(p) == p[Len(p)]

(***************************************************************************)
(* DownloadError and the result of download_file.                          *)
(***************************************************************************)
Pending == [tag |-> "Pending", attempts |-> 0, message |-> ""]

Ok == [tag |-> "Ok", attempts |-> 0, message |-> ""]

IoError == [tag |-> "Io", attempts |-> 0, message |-> "IO error"]

RetryExhausted(n, msg) == [tag |-> "RetryExhausted", attempts |-> n, message |-> msg]

\* DownloadError::to_string of the errors that last_error can hold.
ErrorMessage(e) ==
    CASE e = "Http" -> "HTTP error"
      [] e = "Io" -> "IO error"
      [] e = "HashMismatch" -> "Hash mismatch"

NotReturned == <<Pending>>

(***************************************************************************)
(* DownloadManager                                                         *)
(***************************************************************************)
max_retries == 3

\* impl Default for DownloadManager: Self::new(8), as every installer does.
default_concurrent_downloads == 8

\* Semaphore::acquire completes only when a permit is free.
CanAcquire_NoWait(p) == TRUE

CanAcquire(p) == p > 0

\* `for attempt in 1..=self.max_retries`: is there an iteration after a?
HasNextAttempt_OffByOne(a) == a <= max_retries

HasNextAttempt(a) == a < max_retries

\* completed.fetch_add(1, SeqCst): the previous value and the stored one.
fetch_add_Load(c) == [old |-> c, new |-> c]

fetch_add(c) == [old |-> c, new |-> c + 1]

InitDownload ==
    /\ tasks \in Batches
    /\ width \in (1..MaxWidth) \cup {default_concurrent_downloads}
    /\ permits = width
    /\ holding = [i \in TaskIds |-> FALSE]
    /\ fs \in [Paths -> InitialFiles]
    /\ \A p \in Paths : (\A i \in TaskIds : tasks[i].path # p) => fs[p] = NoFile
    /\ initFs = fs
    /\ pc = [i \in TaskIds |-> "waiting"]
    /\ attempt = [i \in TaskIds |-> 0]
    /\ body = [i \in TaskIds |-> <<>>]
    /\ offset = [i \in TaskIds |-> 0]
    /\ last_error = [i \in TaskIds |-> "None"]
    /\ mismatches = [i \in TaskIds |-> 0]
    /\ lastSeen = [i \in TaskIds |-> "NotRead"]
    /\ requests = [i \in TaskIds |-> 0]
    /\ result = [i \in TaskIds |-> Pending]
    /\ progressMode \in BOOLEAN
    /\ completed = 0
    /\ progress = <<>>
    /\ returned = NotReturned

\* What a verification of task t that read the data d has seen.
Seen(t, d) == IF MatchesAll(t, d) THEN "MatchedAll" ELSE "Mismatched"

\* download_file returns res: its locals and the permit are dropped and, in
\* the progress variant, the counter is bumped and the callback invoked in
\* the same poll.
Settle(i, res) ==
    /\ result' = [result EXCEPT ![i] = res]
    /\ pc' = [pc EXCEPT ![i] = "settled"]
    /\ attempt' = [attempt EXCEPT ![i] = 0]
    /\ body' = [body EXCEPT ![i] = <<>>]
    /\ offset' = [offset EXCEPT ![i] = 0]
    /\ last_error' = [last_error EXCEPT ![i] = "None"]
    /\ permits' = permits + 1
    /\ holding' = [holding EXCEPT ![i] = FALSE]
    /\ IF progressMode
         THEN LET done == fetch_add(completed).old + 1
              IN  /\ completed' = fetch_add(completed).new
                  /\ progress' = Append(progress,
                        [done |-> done, total |-> NumTasks,
                         file |-> file_name(tasks[i].path)])
         ELSE UNCHANGED <<completed, progress>>

\* download_file goes on to position p with loop variable a.
Goto(i, p, a) ==
    /\ pc' = [pc EXCEPT ![i] = p]
    /\ attempt' = [attempt EXCEPT ![i] = a]
    /\ UNCHANGED <<result, permits, holding, completed, progress>>

\* download_file goes on and its locals other than pc and attempt stay.
Stay(i, p, a) ==
    /\ Goto(i, p, a)
    /\ UNCHANGED <<body, offset, last_error>>

\* An attempt failed with e. wait = TRUE on the Err(e) arm (sleep before the
\* next attempt, if there is one), FALSE on the `continue` of a digest
\* mismatch. After the last iteration the loop ends with RetryExhausted.
AttemptFailed(i, e, wait) ==
    /\ mismatches' = [mismatches EXCEPT ![i] = IF e = "HashMismatch" THEN @ + 1 ELSE @]
    /\ IF HasNextAttempt(attempt[i])
         THEN /\ last_error' = [last_error EXCEPT ![i] = e]
              /\ IF wait THEN Goto(i, "sleep", attempt[i])
                         ELSE Goto(i, "request", attempt[i] + 1)
              /\ UNCHANGED <<body, offset>>
         ELSE Settle(i, RetryExhausted(max_retries, ErrorMessage(e)))

\* let _permit = self.semaphore.acquire().await
Acquire(i) ==
    /\ pc[i] = "waiting"
    /\ CanAcquire(permits)
    /\ permits' = permits - 1
    /\ holding' = [holding EXCEPT ![i] = TRUE]
    /\ pc' = [pc EXCEPT ![i] = "mkdir"]
    /\ UNCHANGED <<mergeVars, ruleVars, launchVars, asmVars, loaderVars, instVars, tasks, width, fs, initFs, attempt, body, offset,
                   last_error, mismatches, lastSeen, requests, result,
                   progressMode, completed, progress, returned>>

\* tokio::fs::create_dir_all(parent).await?
CreateDirAll(i) ==
    /\ pc[i] = "mkdir"
    /\ \/ Stay(i, "precheck", attempt[i])
       \/ Settle(i, IoError)
    /\ UNCHANGED <<mergeVars, ruleVars, launchVars, asmVars, loaderVars, instVars, tasks, width, fs, initFs, mismatches, lastSeen, requests,
                   progressMode, returned>>

ExistingFileValid_Never(t, f) == FALSE

\* The existing file satisfies the task: sha1 if given, else sha512 if
\* given, else the size if given.
ExistingFileValid(t, f) ==
    /\ f.exists
    /\ IF t.sha1 # NoDigest THEN verify_sha1(f.data, t.sha1)
       ELSE IF t.sha512 # NoDigest THEN verify_sha512(f.data, t.sha512)
       ELSE IF t.size # NoSize THEN Len(f.data) = t.size
       ELSE FALSE

\* The check of the existing file hashes it.
PrecheckHashes(t, f) == f.exists /\ HasDigest(t)

\* The check of the existing file reads it or its metadata.
PrecheckReads(t, f) == f.exists /\ (HasDigest(t) \/ t.size # NoSize)

\* `if dest_path.exists() { ... }` before the retry loop
Precheck(i) ==
    LET t == tasks[i]
        f == fs[t.path]
        seen == IF PrecheckHashes(t, f) THEN Seen(t, f.data) ELSE lastSeen[i]
    IN  /\ pc[i] = "precheck"
        /\ \/ /\ ExistingFileValid(t, f)
              /\ Settle(i, Ok)
              /\ lastSeen' = [lastSeen EXCEPT ![i] = seen]
           \/ /\ ~ExistingFileValid(t, f)
              /\ Stay(i, "request", 1)
              /\ lastSeen' = [lastSeen EXCEPT ![i] = seen]
           \/ \* opening or reading the file or its metadata fails
              /\ PrecheckReads(t, f)
              /\ Settle(i, IoError)
              /\ UNCHANGED lastSeen
        /\ UNCHANGED <<mergeVars, ruleVars, launchVars, asmVars, loaderVars, instVars, tasks, width, fs, initFs, mismatches, requests,
                       progressMode, returned>>

\* download_with_stream: client.get(url).send() and File::create(dest)
SendRequest(i) ==
    LET p == tasks[i].path
    IN  /\ pc[i] = "request"
        /\ requests' = [requests EXCEPT ![i] = @ + 1]
        /\ \/ \* the request fails, or the status is an error
              /\ AttemptFailed(i, "Http", TRUE)
              /\ UNCHANGED fs
           \/ \* File::create fails
              /\ AttemptFailed(i, "Io", TRUE)
              /\ UNCHANGED fs
           \/ \* the server answers with some content; the file is truncated
              \E c \in Contents :
                /\ fs' = [fs EXCEPT ![p] = FileOf(<<>>)]
                /\ body' = [body EXCEPT ![i] = Whole(c)]
                /\ offset' = [offset EXCEPT ![i] = 0]
                /\ Goto(i, "stream", attempt[i])
                /\ UNCHANGED <<last_error, mismatches>>
        /\ UNCHANGED <<mergeVars, ruleVars, launchVars, asmVars, loaderVars, instVars, tasks, width, initFs, lastSeen, progressMode, returned>>

\* download_with_stream: one iteration of `while let Some(chunk)`; the
\* last chunk is followed by file.flush()
WriteChunk(i) ==
    LET p == tasks[i].path
    IN  /\ pc[i] = "stream"
        /\ \/ \* the stream yields an error
              /\ AttemptFailed(i, "Http", TRUE)
              /\ UNCHANGED fs
           \/ \* write_all or flush fails
              /\ AttemptFailed(i, "Io", TRUE)
              /\ UNCHANGED fs
           \/ /\ fs' = [fs EXCEPT ![p] =
                          FileOf(WriteAt(@.data, offset[i], body[i][offset[i] + 1]))]
              /\ offset' = [offset EXCEPT ![i] = @ + 1]
              /\ Goto(i, IF offset[i] + 1 = Len(body[i]) THEN "verify" ELSE "stream",
                      attempt[i])
              /\ UNCHANGED <<body, last_error, mismatches>>
        /\ UNCHANGED <<mergeVars, ruleVars, launchVars, asmVars, loaderVars, instVars, tasks, width, initFs, lastSeen, requests, progressMode,
                       returned>>

\* The freshly written file passes the check after the download.
DownloadedFileValid(t, d) ==
    /\ t.sha1 # NoDigest => verify_sha1(d, t.sha1)
    /\ t.sha512 # NoDigest => verify_sha512(d, t.sha512)

\* The Ok(_) arm of the retry loop: verify the hash after the download
Verify(i) ==
    LET t == tasks[i]
        f == fs[t.path]
        seen == IF HasDigest(t) THEN Seen(t, f.data) ELSE lastSeen[i]
    IN  /\ pc[i] = "verify"
        /\ \/ /\ DownloadedFileValid(t, f.data)
              /\ Settle(i, Ok)
              /\ lastSeen' = [lastSeen EXCEPT ![i] = seen]
              /\ UNCHANGED mismatches
           \/ /\ ~DownloadedFileValid(t, f.data)
              /\ AttemptFailed(i, "HashMismatch", FALSE)
              /\ lastSeen' = [lastSeen EXCEPT ![i] = seen]
           \/ \* opening or reading the file fails: `?` returns the error
              /\ HasDigest(t)
              /\ Settle(i, IoError)
              /\ UNCHANGED <<mismatches, lastSeen>>
        /\ UNCHANGED <<mergeVars, ruleVars, launchVars, asmVars, loaderVars, instVars, tasks, width, fs, initFs, requests, progressMode,
                       returned>>

\* tokio::time::sleep(500 * attempt) on the Err(e) arm
Sleep(i) ==
    /\ pc[i] = "sleep"
    /\ Stay(i, "request", attempt[i] + 1)
    /\ UNCHANGED <<mergeVars, ruleVars, launchVars, asmVars, loaderVars, instVars, tasks, width, fs, initFs, mismatches, lastSeen, requests, progressMode, returned>>

JoinReady_FirstError(r) ==
    \/ \A i \in TaskIds : r[i] # Pending
    \/ \E i \in TaskIds : r[i].tag \in {"Io", "RetryExhausted"}

\* join_all resolves once every future has resolved, in input order.
JoinReady(r) == \A i \in TaskIds : r[i] # Pending

JoinAll ==
    /\ returned = NotReturned
    /\ JoinReady(result)
    /\ returned' = [i \in TaskIds |-> result[i]]
    /\ UNCHANGED <<mergeVars, ruleVars, launchVars, asmVars, loaderVars, instVars, tasks, width, permits, holding, fs, initFs, pc, attempt,
                   body, offset, last_error, mismatches, lastSeen, requests,
                   result, progressMode, completed, progress>>

(***************************************************************************)
(* C1: download_file makes at most max_retries (3) requests for a task; a  *)
(* verification that matched every digest ends in Ok, whatever the earlier *)
(* attempts were; three failed attempts end in RetryExhausted with         *)
(* attempts = 3 and the message of the last failure (a digest mismatch     *)
(* when all three were mismatches).                                        *)
(***************************************************************************)
RetryBudget ==
    \A i \in TaskIds :
        /\ requests[i] <= max_retries
        /\ mismatches[i] <= requests[i]
        /\ lastSeen[i] = "MatchedAll" => result[i] = Ok
        /\ mismatches[i] = max_retries => result[i].tag = "RetryExhausted"
        /\ result[i].tag = "RetryExhausted" =>
              /\ result[i].attempts = 3
              /\ requests[i] = 3
              /\ result[i].message \in {"HTTP error", "IO error", "Hash mismatch"}
              /\ mismatches[i] = 3 => result[i].message = "Hash mismatch"
              /\ mismatches[i] = 0 => result[i].message # "Hash mismatch"

\* One task is Ok on its third attempt after two digest mismatches, another
\* is exhausted by three digest mismatches.
RetryBudgetWitness ==
    \E i, j \in TaskIds :
        /\ result[i] = Ok /\ requests[i] = 3 /\ mismatches[i] = 2
        /\ result[j] = RetryExhausted(3, "Hash mismatch") /\ mismatches[j] = 3

Populated(i) ==
    /\ HasDigest(tasks[i])
    /\ initFs[tasks[i].path].exists
    /\ MatchesAll(tasks[i], initFs[tasks[i].path].data)

IdempotentRerun ==
    \A i \in TaskIds :
        (\A j \in TaskIds : tasks[j].path = tasks[i].path => Populated(j)) =>
            /\ requests[i] = 0
            /\ fs[tasks[i].path] = initFs[tasks[i].path]
            /\ pc[i] = "settled" => result[i] \in {Ok, IoError}

\* A batch on a fully populated store has returned Ok for every task.
IdempotentRerunWitness ==
    /\ \A i \in TaskIds : Populated(i) /\ result[i] = Ok /\ requests[i] = 0
    /\ returned # NotReturned

(***************************************************************************)
(* C4: at most `width` tasks hold a permit; free permits plus held permits *)
(* are the width; a task is inside download_file (and so does network      *)
(* I/O) only while it holds a permit, and holds none once it has settled.  *)
(***************************************************************************)
Holders == { i \in TaskIds : holding[i] }

PermitBound ==
    /\ Cardinality(Holders) <= width
    /\ permits >= 0
    /\ permits + Cardinality(Holders) = width
    /\ \A i \in TaskIds :
        /\ pc[i] \in {"mkdir", "precheck", "request", "stream", "verify", "sleep"}
              => holding[i]
        /\ pc[i] = "waiting" => ~holding[i] /\ requests[i] = 0
        /\ pc[i] = "settled" => ~holding[i]

\* Every permit is taken by a task that is downloading, another task waits.
PermitBoundWitness ==
    \E i, j \in TaskIds :
        /\ permits = 0
        /\ holding[i] /\ pc[i] = "stream"
        /\ pc[j] = "waiting"

(***************************************************************************)
(* C5: the batch returns only when every task has settled, one result per  *)
(* task in input order, each the task's own result; a task that is         *)
(* exhausted has made all its own attempts whatever the others did.        *)
(***************************************************************************)
BatchNeverAborts ==
    returned # NotReturned =>
        /\ Len(returned) = NumTasks
        /\ \A i \in TaskIds :
            /\ pc[i] = "settled"
            /\ returned[i] # Pending
            /\ returned[i] = result[i]
            /\ returned[i].tag = "RetryExhausted" => requests[i] = max_retries
            /\ (\A j \in TaskIds \ {i} : tasks[j].path # tasks[i].path)
                  /\ requests[i] = 0
                  => fs[tasks[i].path] = initFs[tasks[i].path]

\* The batch has returned a failure for one task and Ok, after a download,
\* for a task with another destination.
BatchNeverAbortsWitness ==
    /\ returned # NotReturned
    /\ \E i, j \in TaskIds :
        /\ tasks[i].path # tasks[j].path
        /\ returned[i].tag = "RetryExhausted"
        /\ returned[j] = Ok /\ requests[j] > 0

(***************************************************************************)
(* C6: every error download_file returns is RetryExhausted.                *)
(***************************************************************************)
OnlyRetryExhaustedReturned ==
    \A i \in TaskIds : result[i].tag \in {"Pending", "Ok", "RetryExhausted"}

(***************************************************************************)
(* C7: a file is visible at a destination path only with its complete      *)
(* content, never truncated or partially written.                          *)
(***************************************************************************)
DestinationNeverPartial ==
    \A p \in Paths : fs[p].exists => IsWhole(fs[p])

(***************************************************************************)
(* C8: download_many_with_progress invokes the callback once per settled   *)
(* task, with totalCount = n and completedCount 1, 2, ..., n in invocation *)
(* order; when the batch returns the callback has been invoked n times.    *)
(***************************************************************************)
Settled == { i \in TaskIds : pc[i] = "settled" }

ProgressCounts ==
    progressMode =>
        /\ Len(progress) = Cardinality(Settled)
        /\ \A k \in 1..Len(progress) :
              progress[k].done = k /\ progress[k].total = NumTasks
        /\ returned # NotReturned => Len(progress) = NumTasks

\* The progress batch has returned with a failed task and a task that was
\* already satisfied, and the last callback carried completedCount = n.
ProgressCountsWitness ==
    /\ progressMode
    /\ returned # NotReturned
    /\ Len(progress) = NumTasks
    /\ progress[NumTasks].done = NumTasks
    /\ \E i, j \in TaskIds :
        /\ result[i].tag = "RetryExhausted"
        /\ result[j] = Ok /\ requests[j] = 0

(***************************************************************************)
(* C25: between a failed attempt k and attempt k+1 of download_file        *)
(* (k = 1, 2) the manager sleeps (500 ms x k, the sleep of iteration k),   *)
(* whatever made attempt k fail; no sleep follows the third attempt.       *)
(***************************************************************************)
BackoffBetweenAttempts ==
    [][\A i \in TaskIds :
         /\ (attempt[i] >= 1 /\ attempt'[i] = attempt[i] + 1) => pc[i] = "sleep"
         /\ pc'[i] = "sleep" => attempt'[i] < max_retries]_vars

(***************************************************************************)
(* C29: when download_file has returned an error for a task (the only task *)
(* of the batch on its path), the destination is absent or holds the       *)
(* content it had before the call (or a complete content that matches the *)
(* task's digests): no truncated, partial or digest-mismatching file is    *)
(* left behind.                                                            *)
(***************************************************************************)
Failed(i) == result[i].tag \in {"Io", "RetryExhausted"}

NoUnverifiedFileAfterError ==
    \A i \in TaskIds :
        (/\ Failed(i)
         /\ \A j \in TaskIds \ {i} : tasks[j].path # tasks[i].path)
        => \/ ~fs[tasks[i].path].exists
           \/ fs[tasks[i].path] = initFs[tasks[i].path]
           \/ /\ IsWhole(fs[tasks[i].path])
              /\ MatchesAll(tasks[i], fs[tasks[i].path].data)

(***************************************************************************)
(* Descriptor resolver: load_merged_version_json and merge_version_json    *)
(***************************************************************************)
VersionIds == 0..MaxDepth

NoParent == -1

NoValue == <<"absent", -1>>

\* The version json of version k: the keys mainClass, inheritsFrom and
\* assets may be absent; the libraries and arguments of k are its own.
Descriptors(k) ==
    { [id |-> k, inheritsFrom |-> p, mainClass |-> m, assets |-> a,
       libraries |-> << <<"lib", k>> >>,
       jvm |-> << <<"jvm", k>> >>,
       game |-> << <<"game", k>> >>] :
        p \in (IF k = 0 THEN {NoParent} ELSE {NoParent, k - 1}),
        m \in {NoValue, <<"Main", k>>},
        a \in {NoValue, <<"assets", k>>} }

NoDescriptor ==
    [id |-> NoParent, inheritsFrom |-> NoParent, mainClass |-> NoValue,
     assets |-> NoValue, libraries |-> <<>>, jvm |-> <<>>, game |-> <<>>]

Missing == [present |-> FALSE, json |-> NoDescriptor]

Stored(d) == [present |-> TRUE, json |-> d]

LoadErr == [ok |-> FALSE, value |-> NoDescriptor]

LoadOk(d) == [ok |-> TRUE, value |-> d]

merge_version_json(parent, child) ==
    [id |-> child.id,
     inheritsFrom |-> IF child.inheritsFrom # NoParent THEN child.inheritsFrom
                      ELSE parent.inheritsFrom,
     mainClass |-> IF child.mainClass # NoValue THEN child.mainClass
                   ELSE parent.mainClass,
     assets |-> IF child.assets # NoValue THEN child.assets ELSE parent.assets,
     libraries |-> parent.libraries \o child.libraries,
     jvm |-> parent.jvm \o child.jvm,
     game |-> parent.game \o child.game]

load_merged_version_json(st, version_id) ==
    IF ~st[version_id].present THEN LoadErr
    ELSE LET v == st[version_id].json
             parent_id == v.inheritsFrom
         IN  IF parent_id # NoParent /\ st[parent_id].present
               THEN LoadOk(merge_version_json(st[parent_id].json, v))
               ELSE LoadOk(v)

InitMerge ==
    /\ store \in { st \in [VersionIds -> UNION { {Missing} \cup {Stored(d) : d \in Descriptors(k)} : k \in VersionIds }] :
                      \A k \in VersionIds : st[k].present => st[k].json.id = k }
    /\ loadedId = NoParent
    /\ merged = LoadErr

LoadMerged(version_id) ==
    /\ loadedId' = version_id
    /\ merged' = load_merged_version_json(store, version_id)
    /\ UNCHANGED <<store, dlVars, ruleVars, launchVars, asmVars, loaderVars, instVars>>

(***************************************************************************)
(* C9: for a chain of descriptors linked by inheritsFrom that is present   *)
(* in the store, load_merged_version_json returns the fold of              *)
(* merge_version_json from the root ancestor down to the requested         *)
(* descriptor: libraries and arguments of every ancestor, mainClass of the *)
(* nearest descriptor that has one.                                        *)
(***************************************************************************)
RECURSIVE ChainPresent(_, _)
ChainPresent(st, k) ==
    /\ st[k].present
    /\ st[k].json.inheritsFrom # NoParent => ChainPresent(st, st[k].json.inheritsFrom)

RECURSIVE FoldChain(_, _)
FoldChain(st, k) ==
    IF st[k].json.inheritsFrom = NoParent THEN st[k].json
    ELSE merge_version_json(FoldChain(st, st[k].json.inheritsFrom), st[k].json)

LoadMergedFoldsWholeChain ==
    loadedId # NoParent /\ ChainPresent(store, loadedId) =>
        merged = LoadOk(FoldChain(store, loadedId))

(***************************************************************************)
(* Rule evaluation: rules_allow of commands/profile.rs and of              *)
(* services/neoforge.rs                                                    *)
(***************************************************************************)
OsNames == {"windows", "osx", "linux"}

NoOs == ""

Rules == [action : {"allow", "disallow", ""}, os : OsNames \cup {NoOs}]

RECURSIVE SeqsUpTo(_, _)
SeqsUpTo(S, n) ==
    IF n = 0 THEN {<<>>}
    ELSE LET shorter == SeqsUpTo(S, n - 1)
         IN  shorter \cup { Append(q, x) : q \in shorter, x \in S }

matches_os_name(name, current) == name = current

RECURSIVE rules_allow_LastMatchWins(_, _, _, _)
rules_allow_LastMatchWins(rs, current, k, matched_allow) ==
    IF k > Len(rs) THEN matched_allow \/ rs = <<>>
    ELSE LET os_ok == IF rs[k].os = NoOs THEN TRUE
                      ELSE matches_os_name(rs[k].os, current)
         IN  IF ~os_ok THEN rules_allow_LastMatchWins(rs, current, k + 1, matched_allow)
             ELSE rules_allow_LastMatchWins(rs, current, k + 1, rs[k].action = "allow")

\* The loop of rules_allow from rule k on, matched_allow being the flag.
RECURSIVE rules_allow(_, _, _, _)
rules_allow(rs, current, k, matched_allow) ==
    IF k > Len(rs) THEN matched_allow \/ rs = <<>>
    ELSE LET os_ok == IF rs[k].os = NoOs THEN TRUE
                      ELSE matches_os_name(rs[k].os, current)
         IN  IF ~os_ok THEN rules_allow(rs, current, k + 1, matched_allow)
             ELSE CASE rs[k].action = "disallow" -> FALSE
                    [] rs[k].action = "allow" -> rules_allow(rs, current, k + 1, TRUE)
                    [] OTHER -> rules_allow(rs, current, k + 1, matched_allow)

Implementations == {"profile", "neoforge"}

InitRules ==
    /\ rules \in SeqsUpTo(Rules, MaxRules)
    /\ currentOs \in OsNames
    /\ verdict = [m \in Implementations |-> "unset"]
    /\ allowed = "unset"

\* fn rules_allow of commands/profile.rs
ProfileRulesAllow ==
    /\ verdict["profile"] = "unset"
    /\ verdict' = [verdict EXCEPT !["profile"] =
                     IF rules_allow(rules, currentOs, 1, FALSE) THEN "allowed" ELSE "denied"]
    /\ UNCHANGED <<rules, currentOs, allowed, dlVars, mergeVars, launchVars, asmVars, loaderVars, instVars>>

\* fn rules_allow of services/neoforge.rs
NeoforgeRulesAllow ==
    /\ verdict["neoforge"] = "unset"
    /\ verdict' = [verdict EXCEPT !["neoforge"] =
                     IF rules_allow(rules, currentOs, 1, FALSE) THEN "allowed" ELSE "denied"]
    /\ UNCHANGED <<rules, currentOs, allowed, dlVars, mergeVars, launchVars, asmVars, loaderVars, instVars>>

\* MinecraftInstaller::matches_os: an OsRule without a name matches.
matches_os(os, current) == os = NoOs \/ os = current

\* The loop of MinecraftInstaller::check_library_rules from rule k on,
\* flag being the local `allowed`.
RECURSIVE check_library_loop(_, _, _, _)
check_library_loop(rs, current, k, flag) ==
    IF k > Len(rs) THEN flag
    ELSE IF matches_os(rs[k].os, current)
           THEN check_library_loop(rs, current, k + 1, rs[k].action = "allow")
           ELSE check_library_loop(rs, current, k + 1, flag)

check_library_rules(rs, current) ==
    IF rs = <<>> THEN TRUE ELSE check_library_loop(rs, current, 1, FALSE)

\* fn check_library_rules of services/minecraft.rs on a library's rules
CheckLibraryRules ==
    /\ allowed = "unset"
    /\ allowed' = IF check_library_rules(rules, currentOs) THEN "allowed" ELSE "denied"
    /\ UNCHANGED <<rules, currentOs, verdict, dlVars, mergeVars, launchVars, asmVars, loaderVars, instVars>>

(***************************************************************************)
(* C10: rules_allow returns true iff the list is empty, or some rule that  *)
(* matches the current OS (or has no OS constraint) allows and no matching *)
(* rule disallows, wherever the disallow stands in the list.               *)
(***************************************************************************)
RuleMatches(r) == r.os = NoOs \/ r.os = currentOs

RulePolicy ==
    \/ rules = <<>>
    \/ /\ \E k \in 1..Len(rules) : RuleMatches(rules[k]) /\ rules[k].action = "allow"
       /\ ~\E k \in 1..Len(rules) : RuleMatches(rules[k]) /\ rules[k].action = "disallow"

RulesAllowPolicy ==
    \A m \in Implementations :
        verdict[m] # "unset" => (verdict[m] = "allowed" <=> RulePolicy)

\* Both implementations have denied a list in which a matching disallow
\* comes after a matching allow.
RulesAllowPolicyWitness ==
    /\ \A m \in Implementations : verdict[m] = "denied"
    /\ \E j, k \in 1..Len(rules) :
        /\ j < k
        /\ RuleMatches(rules[j]) /\ rules[j].action = "allow"
        /\ RuleMatches(rules[k]) /\ rules[k].action = "disallow"
        /\ rules[k].os = currentOs

(***************************************************************************)
(* C24: check_library_rules of the engine installer gives every rule list  *)
(* the verdict rules_allow gives it, so the installer downloads exactly    *)
(* the libraries the launch assembler admits; a matching disallow excludes *)
(* a library even when a matching allow follows it.                        *)
(***************************************************************************)
InstallerGatingMatchesAssembler ==
    allowed # "unset" /\ verdict["profile"] # "unset" => allowed = verdict["profile"]

(***************************************************************************)
(* launch_profile and the process supervisor spawn_and_check               *)
(* (commands/profile.rs), with the crash scan of services/log_analyzer.rs  *)
(***************************************************************************)
Loaders == {"Vanilla", "Fabric", "Forge", "NeoForge", "Quilt"}

\* The `mode` argument of spawn_and_check names the attempt.
Modes == {"vanilla", "fabric", "vanilla-fallback", "neoforge"}

Streams == {"stdout", "stderr"}

Libraries == {"lwjgl-platform"}

\* versions/<version>/natives and natives/<version_id>
NativesDirs == {"versions-natives", "natives-dir"}

NoDir == ""

ExitCodes == {0, 1}

\* child.id() right after the spawn, and the pid of the stopped payload.
child_id(m) == <<"Some", m>>

NoPid == <<"None", "">>

GAME_STATUS_EVENT == "game_status"

GAME_CONSOLE_EVENT == "game_console_output"

GameStatusPayload(m, is_running, pid) ==
    [name |-> GAME_STATUS_EVENT, mode |-> m, is_running |-> is_running,
     pid |-> pid, stream |-> "", title |-> ""]

GameConsolePayload(m, stream) ==
    [name |-> GAME_CONSOLE_EVENT, mode |-> m, is_running |-> TRUE,
     pid |-> NoPid, stream |-> stream, title |-> ""]

CrashReport(m, title) ==
    [name |-> "crash_report", mode |-> m, is_running |-> FALSE,
     pid |-> NoPid, stream |-> "", title |-> title]

NoReport == ""

\* analyze_log on a log whose text contains the marker strings of `content`:
\* the first signature that matches decides.
analyze_log(content) ==
    IF "java.lang.OutOfMemoryError" \in content \/ "Out of memory" \in content
      THEN "Out of Memory"
    ELSE IF "UnsupportedClassVersionError" \in content
            \/ "has been compiled by a more recent version" \in content
      THEN "Java Version Mismatch"
    ELSE IF "Mixin apply failed" \in content \/ "MixinTransformerError" \in content
      THEN "Mod Incompatibility (Mixin)"
    ELSE IF "requires X of Y" \in content
      THEN "Missing Dependency"
    ELSE IF "Mod resolution encountered an incompatible mod" \in content
      THEN "Incompatible Mod"
    ELSE IF "EXCEPTION_ACCESS_VIOLATION" \in content /\ "atio6axx.dll" \in content
      THEN "Graphics Driver Crash (AMD)"
    ELSE NoReport

\* logs/latest.log of the profile when the waiter looks at it.
LogMissing == [exists |-> FALSE, readable |-> FALSE, content |-> {}]

LogUnreadable == [exists |-> TRUE, readable |-> FALSE, content |-> {}]

LogOf(content) == [exists |-> TRUE, readable |-> TRUE, content |-> content]

LogContents ==
    { {},
      {"Mixin apply failed", "Out of memory"},
      {"EXCEPTION_ACCESS_VIOLATION"},
      {"EXCEPTION_ACCESS_VIOLATION", "atio6axx.dll"} }

Logs == {LogMissing, LogUnreadable} \cup { LogOf(c) : c \in LogContents }

NotRead == [exists |-> FALSE, readable |-> FALSE, content |-> {"not read"}]

InitLaunch ==
    /\ loader \in Loaders
    /\ library \in [Libraries -> [classifier : BOOLEAN, jar : BOOLEAN]]
    /\ lpc = "natives"
    /\ launched = "pending"
    /\ extracted = [d \in NativesDirs |-> {}]
    /\ libraryPath = NoDir
    /\ sc = [m \in Modes |-> "idle"]
    /\ ret = [m \in Modes |-> "pending"]
    /\ proc = [m \in Modes |-> "NotStarted"]
    /\ code = [m \in Modes |-> 0]
    /\ windowExit = [m \in Modes |-> "none"]
    /\ pipe = [m \in Modes |-> [s \in Streams |-> 0]]
    /\ written = [m \in Modes |-> [s \in Streams |-> 0]]
    /\ reader = [m \in Modes |-> [s \in Streams |-> FALSE]]
    /\ waiter = [m \in Modes |-> "none"]
    /\ status = [m \in Modes |-> "none"]
    /\ logSeen = [m \in Modes |-> NotRead]
    /\ events = <<>>

\* The variables of one spawn_and_check call and of its tasks.
superVars == <<sc, ret, proc, code, windowExit, pipe, written, reader, waiter,
               status, logSeen, events>>

\* start_extract_natives: creates versions/<version>/natives and returns
\* its path; nothing is unpacked.
start_extract_natives(ex) == ex

\* extract_natives_from_version_json: every library with a natives
\* classifier for this OS whose jar is in the library store is unpacked.
extract_natives_from_version_json(ex, libs) ==
    [ex EXCEPT !["natives-dir"] =
        @ \cup { l \in Libraries : libs[l].classifier /\ libs[l].jar }]

\* let natives_dir = start_extract_natives(&profile.version)
StartExtractNatives ==
    /\ lpc = "natives"
    /\ extracted' = start_extract_natives(extracted)
    /\ lpc' = "launch"
    /\ UNCHANGED <<loader, library, launched, libraryPath, superVars,
                   dlVars, mergeVars, ruleVars, asmVars, loaderVars, instVars>>

\* The mode of the first attempt of a loader.
FirstMode(l) ==
    CASE l = "Vanilla" -> "vanilla"
      [] l = "Fabric" -> "fabric"
      [] l = "NeoForge" -> "neoforge"

\* build_vanilla_style_args and the call of spawn_and_check, in the arms
\* ModLoader::Vanilla and ModLoader::Fabric and in the Fabric fallback.
BuildVanillaStyleArgs ==
    /\ \/ lpc = "launch" /\ loader \in {"Vanilla", "Fabric"}
       \/ lpc = "fallback"
    /\ LET m == IF lpc = "fallback" THEN "vanilla-fallback" ELSE FirstMode(loader)
       IN  /\ libraryPath' = "versions-natives"
           /\ sc' = [sc EXCEPT ![m] = "spawn"]
           /\ lpc' = m
    /\ UNCHANGED <<loader, library, launched, extracted, ret, proc, code,
                   windowExit, pipe, written, reader, waiter, status, logSeen,
                   events, dlVars, mergeVars, ruleVars, asmVars, loaderVars, instVars>>

\* The arm ModLoader::NeoForge up to the call of spawn_and_check:
\* build_args_from_version_json extracts the natives, then builds the flag.
BuildNeoForgeArgs ==
    /\ lpc = "launch" /\ loader = "NeoForge"
    /\ \/ \* not installed yet, or building the arguments fails
          /\ launched' = "Err"
          /\ lpc' = "done"
          /\ UNCHANGED <<extracted, libraryPath, sc>>
       \/ /\ extracted' = extract_natives_from_version_json(extracted, library)
          /\ libraryPath' = "natives-dir"
          /\ sc' = [sc EXCEPT !["neoforge"] = "spawn"]
          /\ lpc' = "neoforge"
          /\ UNCHANGED launched
    /\ UNCHANGED <<loader, library, ret, proc, code, windowExit, pipe, written,
                   reader, waiter, status, logSeen, events,
                   dlVars, mergeVars, ruleVars, asmVars, loaderVars, instVars>>

\* The arm `_ =>`: the loader is not implemented.
UnsupportedLoader ==
    /\ lpc = "launch" /\ loader \notin {"Vanilla", "Fabric", "NeoForge"}
    /\ launched' = "Err"
    /\ lpc' = "done"
    /\ UNCHANGED <<loader, library, extracted, libraryPath, superVars,
                   dlVars, mergeVars, ruleVars, asmVars, loaderVars, instVars>>

\* What launch_profile does with the error of spawn_and_check(mode):
\* only the Fabric attempt is followed by another one.
AfterSpawnError(m) == IF m = "fabric" THEN "fallback" ELSE "done"

\* spawn_and_check(mode).await returned to launch_profile
SpawnReturned(m) ==
    /\ lpc = m
    /\ sc[m] = "returned"
    /\ IF ret[m] = "Ok"
         THEN launched' = "Ok" /\ lpc' = "done"
         ELSE /\ lpc' = AfterSpawnError(m)
              /\ launched' = IF AfterSpawnError(m) = "done" THEN "Err" ELSE launched
    /\ UNCHANGED <<loader, library, extracted, libraryPath, superVars,
                   dlVars, mergeVars, ruleVars, asmVars, loaderVars, instVars>>

\* The rest of the state when one spawn_and_check step or task acts.
LaunchFrame == UNCHANGED <<loader, library, lpc, launched, extracted, libraryPath,
                           dlVars, mergeVars, ruleVars, asmVars, loaderVars, instVars>>

\* Where spawn_and_check goes after Command::spawn: `?` returns the error.
AfterSpawn_IgnoreError(ok) == "emit_started"

AfterSpawn(ok) == IF ok THEN "emit_started" ELSE "returned"

\* Command::new(java_path)...spawn().map_err(...)?
Spawn(m) ==
    /\ sc[m] = "spawn"
    /\ \E ok \in BOOLEAN :
        /\ sc' = [sc EXCEPT ![m] = AfterSpawn(ok)]
        /\ proc' = [proc EXCEPT ![m] = IF ok THEN "Running" ELSE "SpawnFailed"]
        /\ ret' = [ret EXCEPT ![m] = IF AfterSpawn(ok) = "returned" THEN "Err" ELSE @]
    /\ UNCHANGED <<code, windowExit, pipe, written, reader, waiter, status,
                   logSeen, events>>
    /\ LaunchFrame

\* app.emit(GAME_STATUS_EVENT, GameStatusPayload { is_running: true, pid })
EmitStarted(m) ==
    /\ sc[m] = "emit_started"
    /\ events' = Append(events, GameStatusPayload(m, TRUE, child_id(m)))
    /\ sc' = [sc EXCEPT ![m] = "readers"]
    /\ UNCHANGED <<ret, proc, code, windowExit, pipe, written, reader, waiter,
                   status, logSeen>>
    /\ LaunchFrame

\* tokio::spawn of the stdout reader, then of the stderr reader
StartReaders(m) ==
    /\ sc[m] = "readers"
    /\ reader' = [reader EXCEPT ![m] = [s \in Streams |-> TRUE]]
    /\ sc' = [sc EXCEPT ![m] = "waiter"]
    /\ UNCHANGED <<ret, proc, code, windowExit, pipe, written, waiter, status,
                   logSeen, events>>
    /\ LaunchFrame

\* tokio::spawn of the task that monitors the process exit
StartWaiter(m) ==
    /\ sc[m] = "waiter"
    /\ waiter' = [waiter EXCEPT ![m] = "waiting"]
    /\ sc' = [sc EXCEPT ![m] = "sleep"]
    /\ UNCHANGED <<ret, proc, code, windowExit, pipe, written, reader, status,
                   logSeen, events>>
    /\ LaunchFrame

\* sleep(Duration::from_millis(1500)).await; Ok(()): the child was moved
\* into the waiter, its state is not looked at.
GraceWindow(m) ==
    /\ sc[m] = "sleep"
    /\ ret' = [ret EXCEPT ![m] = "Ok"]
    /\ sc' = [sc EXCEPT ![m] = "returned"]
    /\ UNCHANGED <<proc, code, windowExit, pipe, written, reader, waiter, status,
                   logSeen, events>>
    /\ LaunchFrame

\* The game writes a line to stdout or stderr.
ProcessWrite(m, s) ==
    /\ proc[m] = "Running"
    /\ written[m][s] < MaxLines
    /\ written' = [written EXCEPT ![m][s] = @ + 1]
    /\ pipe' = [pipe EXCEPT ![m][s] = @ + 1]
    /\ UNCHANGED <<sc, ret, proc, code, windowExit, reader, waiter, status,
                   logSeen, events>>
    /\ LaunchFrame

\* The game process exits with code c.
ProcessExit(m) ==
    /\ proc[m] = "Running"
    /\ \E c \in ExitCodes :
        /\ code' = [code EXCEPT ![m] = c]
        /\ windowExit' = [windowExit EXCEPT ![m] =
                            IF sc[m] = "returned" THEN @
                            ELSE IF c = 0 THEN "clean" ELSE "abnormal"]
    /\ proc' = [proc EXCEPT ![m] = "Exited"]
    /\ UNCHANGED <<sc, ret, pipe, written, reader, waiter, status, logSeen, events>>
    /\ LaunchFrame

\* One iteration of `while let Ok(Some(line)) = reader.next_line().await`
ReadLine(m, s) ==
    /\ reader[m][s]
    /\ pipe[m][s] > 0
    /\ pipe' = [pipe EXCEPT ![m][s] = @ - 1]
    /\ events' = Append(events, GameConsolePayload(m, s))
    /\ UNCHANGED <<sc, ret, proc, code, windowExit, written, reader, waiter,
                   status, logSeen>>
    /\ LaunchFrame

\* The waiter scans the log: `if let Ok(exit_status) = &status` and
\* `!exit_status.success()`.
ShouldAnalyze_AnyExit(st) == st \in {"success", "failure"}

ShouldAnalyze(st) == st = "failure"

\* Where the waiter goes when child.wait() has returned st: the stopped
\* event is emitted on every path.
AfterWait_ErrorReturns(st) ==
    IF st = "error" THEN "done" ELSE IF ShouldAnalyze(st) THEN "analyze" ELSE "stop"

AfterWait(st) == IF ShouldAnalyze(st) THEN "analyze" ELSE "stop"

\* let status = child.wait().await
WaitReturns(m) ==
    /\ waiter[m] = "waiting"
    /\ proc[m] = "Exited"
    /\ \E st \in {IF code[m] = 0 THEN "success" ELSE "failure", "error"} :
        /\ status' = [status EXCEPT ![m] = st]
        /\ waiter' = [waiter EXCEPT ![m] = AfterWait(st)]
    /\ UNCHANGED <<sc, ret, proc, code, windowExit, pipe, written, reader,
                   logSeen, events>>
    /\ LaunchFrame

\* The report the waiter emits for the log it finds, if any.
ReportOf(log) ==
    IF log.exists /\ log.readable THEN analyze_log(log.content) ELSE NoReport

\* log_path.exists(), read_to_string, analyze_log, emit("crash_report")
AnalyzeLog(m) ==
    /\ waiter[m] = "analyze"
    /\ \E log \in Logs :
        /\ logSeen' = [logSeen EXCEPT ![m] = log]
        /\ events' = IF ReportOf(log) # NoReport
                       THEN Append(events, CrashReport(m, ReportOf(log)))
                       ELSE events
    /\ waiter' = [waiter EXCEPT ![m] = "stop"]
    /\ UNCHANGED <<sc, ret, proc, code, windowExit, pipe, written, reader, status>>
    /\ LaunchFrame

\* app.emit(GAME_STATUS_EVENT, GameStatusPayload { is_running: false, pid: None })
EmitStopped(m) ==
    /\ waiter[m] = "stop"
    /\ events' = Append(events, GameStatusPayload(m, FALSE, NoPid))
    /\ waiter' = [waiter EXCEPT ![m] = "done"]
    /\ UNCHANGED <<sc, ret, proc, code, windowExit, pipe, written, reader, status,
                   logSeen>>
    /\ LaunchFrame


(***************************************************************************)
(* C11: for every successful spawn exactly one started event (is_running,  *)
(* pid set) is emitted; once the process has exited exactly one stopped    *)
(* event (not running, pid cleared) is eventually emitted, after the       *)
(* started event; no second started or stopped event is emitted for it.    *)
(***************************************************************************)
StatusEvents(m, running) ==
    { k \in 1..Len(events) :
        /\ events[k].name = GAME_STATUS_EVENT
        /\ events[k].mode = m
        /\ events[k].is_running = running }

StartedOnce(m) ==
    /\ Cardinality(StatusEvents(m, TRUE)) = 1
    /\ \A k \in StatusEvents(m, TRUE) : events[k].pid # NoPid

StoppedOnce(m) ==
    /\ Cardinality(StatusEvents(m, FALSE)) = 1
    /\ \A k \in StatusEvents(m, FALSE) : events[k].pid = NoPid

LifecycleOrder ==
    \A m \in Modes :
        /\ Cardinality(StatusEvents(m, TRUE)) <= 1
        /\ Cardinality(StatusEvents(m, FALSE)) <= 1
        /\ sc[m] \in {"readers", "waiter", "sleep"} \/ ret[m] = "Ok" => StartedOnce(m)
        /\ \A k \in StatusEvents(m, FALSE) :
              /\ proc[m] = "Exited"
              /\ \E j \in StatusEvents(m, TRUE) : j < k

LifecycleEvents ==
    /\ []LifecycleOrder
    /\ \A m \in Modes : (proc[m] = "Running") ~> StartedOnce(m)
    /\ \A m \in Modes : (proc[m] = "Exited") ~> (StartedOnce(m) /\ StoppedOnce(m))

\* A process that exited before its waiter was started has its started and
\* its stopped event.
LifecycleEventsWitness ==
    \E m \in Modes :
        /\ windowExit[m] = "abnormal"
        /\ status[m] = "error"
        /\ StartedOnce(m) /\ StoppedOnce(m)
        /\ Len(events) > 2

(***************************************************************************)
(* C28: for one game process no output event (a stdout or stderr line) is  *)
(* emitted after the process's stopped event: the stopped event comes only *)
(* after both readers have forwarded every line the process wrote.         *)
(***************************************************************************)
OutputEvents(m) ==
    { k \in 1..Len(events) :
        events[k].name = GAME_CONSOLE_EVENT /\ events[k].mode = m }

NoOutputAfterStopped ==
    \A m \in DOMAIN sc :
        /\ \A j \in StatusEvents(m, FALSE) : \A k \in OutputEvents(m) : k < j
        /\ StatusEvents(m, FALSE) # {} => \A s \in Streams : pipe[m][s] = 0

(***************************************************************************)
(* C12: spawn_and_check returns an error only when the process could not   *)
(* be spawned; then the state went from NotStarted to SpawnFailed, no      *)
(* started, output or stopped event was emitted for the attempt, and no    *)
(* reader or waiter task was started.                                      *)
(***************************************************************************)
SpawnFailedQuiet ==
    \A m \in Modes :
        /\ ret[m] = "Err" <=> proc[m] = "SpawnFailed"
        /\ proc[m] = "SpawnFailed" =>
              /\ sc[m] = "returned"
              /\ \A k \in 1..Len(events) : events[k].mode # m
              /\ \A s \in Streams : ~reader[m][s] /\ written[m][s] = 0
              /\ waiter[m] = "none"

SpawnFailsFast ==
    /\ []SpawnFailedQuiet
    /\ [][\A m \in Modes : proc'[m] = "SpawnFailed" =>
              proc[m] \in {"NotStarted", "SpawnFailed"}]_vars

\* The Fabric attempt could not be spawned and the fallback is running.
SpawnFailsFastWitness ==
    /\ proc["fabric"] = "SpawnFailed" /\ ret["fabric"] = "Err"
    /\ proc["vanilla-fallback"] = "Running"
    /\ StartedOnce("vanilla-fallback")

(***************************************************************************)
(* C13: spawn_and_check returns Ok only if the process is still running    *)
(* when the grace window ends; a process that exited abnormally inside the *)
(* window makes it return an error, so that the Fabric path goes on to the *)
(* vanilla fallback.                                                       *)
(***************************************************************************)
EarlyCrashReported ==
    /\ \A m \in Modes : ret[m] = "Ok" => windowExit[m] = "none"
    /\ \A m \in Modes : windowExit[m] = "abnormal" /\ sc[m] = "returned" => ret[m] = "Err"
    /\ windowExit["fabric"] = "abnormal" /\ lpc = "done" => sc["vanilla-fallback"] # "idle"

(***************************************************************************)
(* C14: a crash_report is emitted only for a process whose exit status is  *)
(* unsuccessful and whose latest.log matches a known signature, at most    *)
(* once per process and before its stopped event; a process that exits     *)
(* with code 0 has none; the waiter ends with the stopped event whether or *)
(* not a report was produced.                                              *)
(***************************************************************************)
CrashReports(m) ==
    { k \in 1..Len(events) : events[k].name = "crash_report" /\ events[k].mode = m }

KnownSignature(content) ==
    \/ content \cap {"java.lang.OutOfMemoryError", "Out of memory",
                     "UnsupportedClassVersionError",
                     "has been compiled by a more recent version",
                     "Mixin apply failed", "MixinTransformerError",
                     "requires X of Y",
                     "Mod resolution encountered an incompatible mod"} # {}
    \/ {"EXCEPTION_ACCESS_VIOLATION", "atio6axx.dll"} \subseteq content

CrashReportOnlyOnFailure ==
    \A m \in Modes :
        /\ Cardinality(CrashReports(m)) <= 1
        /\ \A k \in CrashReports(m) :
              /\ proc[m] = "Exited" /\ code[m] # 0 /\ status[m] = "failure"
              /\ logSeen[m].exists /\ logSeen[m].readable
              /\ KnownSignature(logSeen[m].content)
              /\ \A j \in StatusEvents(m, FALSE) : k < j
        /\ proc[m] = "Exited" /\ code[m] = 0 => CrashReports(m) = {}
        /\ waiter[m] = "done" => StoppedOnce(m)
        /\ waiter[m] = "done" /\ status[m] = "failure" /\ logSeen[m].readable
              /\ KnownSignature(logSeen[m].content) => CrashReports(m) # {}

\* A crashed process has its report and then its stopped event; the report
\* is the first signature of a log that holds two.
CrashReportOnlyOnFailureWitness ==
    \E m \in Modes :
        /\ waiter[m] = "done"
        /\ logSeen[m] = LogOf({"Mixin apply failed", "Out of memory"})
        /\ \E k \in CrashReports(m) : events[k].title = "Out of Memory"
        /\ StoppedOnce(m)

(***************************************************************************)
(* C20: in every launch path the natives of every library with a           *)
(* classifier for the current OS are in the directory named by             *)
(* -Djava.library.path before the flag is used: when spawn_and_check is    *)
(* called, the extraction into that directory is complete.                 *)
(***************************************************************************)
NativesExtractedBeforeSpawn ==
    \A m \in Modes :
        sc[m] # "idle" =>
            /\ libraryPath # NoDir
            /\ \A l \in Libraries :
                  library[l].classifier => l \in extracted[libraryPath]

(***************************************************************************)
(* Launch assembler: build_args_from_version_json and its helpers          *)
(* (commands/profile.rs), with the extra_jvm_args of the NeoForge path     *)
(***************************************************************************)
TargetOs == {"windows", "macos", "linux"}

\* The OS name the rules and the natives are matched against.
os_key(os) ==
    CASE os = "windows" -> "windows"
      [] os = "macos" -> "osx"
      [] OTHER -> "linux"

\* An argument string: the literal `head`, then either an unresolved
\* placeholder ${ph} or the value of the variable `val` that replaced it, or a
\* list of paths joined by the classpath separator. `origin` and `idx` record
\* where the assembler took the argument from.
Arg(head, ph, val, paths, origin) ==
    [head |-> head, ph |-> ph, val |-> val, paths |-> paths,
     origin |-> origin, idx |-> 0]

Lit(head) == Arg(head, "", "", <<>>, "")

Placeholder(head, ph) == Arg(head, ph, "", <<>>, "")

PathList(paths) == Arg("", "", "", paths, "")

\* a == s for a string literal s
IsExactly(a, s) == a.head = s /\ a.ph = "" /\ a.val = "" /\ a.paths = <<>>

\* a.contains("${")
Unresolved(a) == a.ph # ""

\* A path as written, `slash` being the separator it uses, and the
\* lower-case form of its name.
PathNames == {"a/b.jar", "A/B.JAR", "c/d.jar"}

to_lowercase(name) == IF name = "A/B.JAR" THEN "a/b.jar" ELSE name

PathOf(slash, name) == [slash |-> slash, name |-> name]

\* trim, '\' -> '/', "//" -> "/", and to_lowercase on a windows target
normalize_path_for_compare(path, os) ==
    [slash |-> "/",
     name |-> IF os = "windows" THEN to_lowercase(path.name) ELSE path.name]

\* The loop of dedup_preserve_order from item k on: exact string equality.
RECURSIVE dedup_loop(_, _, _, _)
dedup_loop(items, k, seen, out) ==
    IF k > Len(items) THEN out
    ELSE IF items[k] \in seen THEN dedup_loop(items, k + 1, seen, out)
    ELSE dedup_loop(items, k + 1, seen \cup {items[k]}, Append(out, items[k]))

dedup_preserve_order(items) == dedup_loop(items, 1, {}, <<>>)

\* The de-duplication loop of deduplicate_module_path_args: the paths are
\* compared after normalize_path_for_compare.
RECURSIVE dedup_normalized_loop(_, _, _, _, _)
dedup_normalized_loop(items, os, k, seen, out) ==
    IF k > Len(items) THEN out
    ELSE LET normalized == normalize_path_for_compare(items[k], os)
         IN  IF normalized \in seen
               THEN dedup_normalized_loop(items, os, k + 1, seen, out)
               ELSE dedup_normalized_loop(items, os, k + 1, seen \cup {normalized},
                                          Append(out, items[k]))

IsModulePathFlag(a) == IsExactly(a, "-p") \/ IsExactly(a, "--module-path")

RECURSIVE extract_module_path_loop(_, _, _, _)
extract_module_path_loop(jvm, os, i, out) ==
    IF i > Len(jvm) THEN out
    ELSE IF IsModulePathFlag(jvm[i]) /\ i + 1 <= Len(jvm)
      THEN extract_module_path_loop(jvm, os, i + 1,
              out \o [k \in 1..Len(jvm[i + 1].paths) |->
                        normalize_path_for_compare(jvm[i + 1].paths[k], os)])
      ELSE extract_module_path_loop(jvm, os, i + 1, out)

extract_module_path_libraries(jvm, os) == extract_module_path_loop(jvm, os, 1, <<>>)

RECURSIVE deduplicate_module_path_loop(_, _, _, _)
deduplicate_module_path_loop(jvm, os, i, acc) ==
    IF i > Len(jvm) THEN acc
    ELSE IF IsModulePathFlag(jvm[i])
      THEN IF i + 1 <= Len(jvm)
             THEN deduplicate_module_path_loop(jvm, os, i + 2,
                     acc \o <<jvm[i],
                                 [jvm[i + 1] EXCEPT !.paths =
                                     dedup_normalized_loop(@, os, 1, {}, <<>>)]>>)
             ELSE deduplicate_module_path_loop(jvm, os, i + 1,
                     acc \o <<jvm[i], jvm[i]>>)
      ELSE deduplicate_module_path_loop(jvm, os, i + 1, Append(acc, jvm[i]))

deduplicate_module_path_args(jvm, os) == deduplicate_module_path_loop(jvm, os, 1, <<>>)

RECURSIVE filter_entries(_, _, _, _)
filter_entries(cp, module_set, os, k) ==
    IF k > Len(cp) THEN <<>>
    ELSE IF normalize_path_for_compare(cp[k], os) \in module_set
      THEN filter_entries(cp, module_set, os, k + 1)
      ELSE <<cp[k]>> \o filter_entries(cp, module_set, os, k + 1)

filter_classpath_conflicts(cp, module_libs, os) ==
    IF module_libs = <<>> THEN cp
    ELSE filter_entries(cp, { module_libs[k] : k \in 1..Len(module_libs) }, os, 1)

\* The loop of filter_jvm_args from argument k on.
RECURSIVE filter_jvm_loop(_, _, _)
filter_jvm_loop(a, k, skip_next) ==
    IF k > Len(a) THEN <<>>
    ELSE IF skip_next THEN filter_jvm_loop(a, k + 1, FALSE)
    ELSE IF IsExactly(a[k], "-cp") \/ IsExactly(a[k], "-classpath")
      THEN filter_jvm_loop(a, k + 1, TRUE)
    ELSE IF a[k].ph = "classpath" THEN filter_jvm_loop(a, k + 1, FALSE)
    ELSE <<a[k]>> \o filter_jvm_loop(a, k + 1, FALSE)

filter_jvm_args(a) == filter_jvm_loop(a, 1, FALSE)

value_flags ==
    {"--width", "--height", "--clientId", "--xuid", "--versionType",
     "--quickPlayPath", "--quickPlaySingleplayer", "--quickPlayMultiplayer",
     "--quickPlayRealms"}

\* value_flags.contains(a.as_str())
TakesValue(a) == \E f \in value_flags : IsExactly(a, f)

\* The loop of filter_unresolved_game_args from argument i on.
RECURSIVE filter_unresolved_loop(_, _)
filter_unresolved_loop(g, i) ==
    IF i > Len(g) THEN <<>>
    ELSE IF TakesValue(g[i]) /\ i + 1 <= Len(g)
            /\ (Unresolved(g[i]) \/ Unresolved(g[i + 1]))
      THEN filter_unresolved_loop(g, i + 2)
    ELSE IF Unresolved(g[i]) THEN filter_unresolved_loop(g, i + 1)
    ELSE <<g[i]>> \o filter_unresolved_loop(g, i + 1)

filter_unresolved_game_args(g) == filter_unresolved_loop(g, 1)

\* The keys of the variable table `vars`.
VarTable ==
    {"auth_player_name", "auth_uuid", "auth_access_token", "user_type",
     "version_name", "game_directory", "assets_root", "assets_index_name",
     "natives_directory", "library_directory", "classpath",
     "classpath_separator", "launcher_name", "launcher_version",
     "user_properties", "clientid", "auth_xuid", "version_type",
     "resolution_width", "resolution_height", "quickPlayPath",
     "quickPlaySingleplayer", "quickPlayMultiplayer", "quickPlayRealms"}

\* substitute_vars: a placeholder whose name is a key is replaced by the
\* value (the classpath string for ${classpath}), any other one stays.
substitute_vars(a, cp) ==
    IF a.ph \in VarTable
      THEN [a EXCEPT !.ph = "", !.val = a.ph,
                     !.paths = IF a.ph = "classpath" THEN cp ELSE @]
      ELSE a

\* One element of arguments.jvm / arguments.game: a string, or an object
\* with rules and a value that is a string or a list of strings.
Item(rs, value) == [rules |-> rs, value |-> value]

Plain(a) == Item(<<>>, <<a>>)

\* flatten_argument_array from element k on
RECURSIVE flatten_argument_array(_, _, _)
flatten_argument_array(arr, os, k) ==
    IF k > Len(arr) THEN <<>>
    ELSE IF rules_allow(arr[k].rules, os_key(os), 1, FALSE)
      THEN arr[k].value \o flatten_argument_array(arr, os, k + 1)
      ELSE flatten_argument_array(arr, os, k + 1)

\* The arguments taken from the template, tagged with where they stood.
Tagged(a, origin) == [k \in 1..Len(a) |-> [a[k] EXCEPT !.origin = origin, !.idx = k]]

extract_arguments(tpl, os) ==
    [jvm |-> Tagged(flatten_argument_array(tpl.jvm, os, 1), "jvm"),
     game |-> Tagged(flatten_argument_array(tpl.game, os, 1), "game")]

Flags(texts, origin) == [k \in 1..Len(texts) |-> Arg(texts[k], "", "", <<>>, origin)]

NoPreset == ""

append_jvm_preset_args(preset) ==
    CASE preset = "low_memory" -> Flags(<<"-XX:+UseSerialGC">>, "preset")
      [] preset \in {"aikars", "high_performance"} ->
            Flags(<<"-XX:+UseG1GC", "-XX:+ParallelRefProcEnabled",
                    "-XX:MaxGCPauseMillis=200", "-XX:+UnlockExperimentalVMOptions",
                    "-XX:+DisableExplicitGC", "-XX:+AlwaysPreTouch",
                    "-XX:G1NewSizePercent=30", "-XX:G1MaxNewSizePercent=40",
                    "-XX:G1HeapRegionSize=8M", "-XX:G1ReservePercent=20",
                    "-XX:G1HeapWastePercent=5", "-XX:G1MixedGCCountTarget=4",
                    "-XX:InitiatingHeapOccupancyPercent=15",
                    "-XX:G1MixedGCLiveThresholdPercent=90",
                    "-XX:G1RSetUpdatingPauseTimePercent=5", "-XX:SurvivorRatio=32",
                    "-XX:+PerfDisableSharedMem", "-XX:MaxTenuringThreshold=1">>,
                  "preset")
            \o <<Arg("-Xms", "", "max_memory_mb", <<>>, "preset")>>
      [] preset = "zgc" -> Flags(<<"-XX:+UseZGC">>, "preset")
      [] preset = "zgc_gen" -> Flags(<<"-XX:+UseZGC", "-XX:+ZGenerational">>, "preset")
      [] preset = "ultimate" ->
            Flags(<<"-XX:+UseZGC", "-XX:+ZGenerational",
                    "-XX:+UnlockExperimentalVMOptions", "-XX:+AlwaysPreTouch",
                    "-XX:+DisableExplicitGC", "-XX:+PerfDisableSharedMem",
                    "-XX:+UseStringDeduplication",
                    "-Djava.net.preferIPv4Stack=true">>, "preset")
      [] preset = "shenandoah" ->
            Flags(<<"-XX:+UseShenandoahGC", "-XX:+AlwaysPreTouch">>, "preset")
      [] OTHER -> <<>>

compatibility_flags ==
    <<"--add-opens=java.base/java.util.jar=ALL-UNNAMED",
      "--add-opens=java.base/java.lang=ALL-UNNAMED",
      "--add-opens=java.base/java.util=ALL-UNNAMED",
      "--add-opens=java.base/java.io=ALL-UNNAMED",
      "--add-opens=java.base/java.net=ALL-UNNAMED",
      "--add-opens=java.base/java.nio=ALL-UNNAMED",
      "--add-opens=java.desktop/sun.awt=ALL-UNNAMED",
      "--add-opens=java.desktop/sun.font=ALL-UNNAMED">>

\* The extra_jvm_args launch_profile hands over in the NeoForge path.
extra_jvm_args(ctx, os) ==
    Flags(<<"--add-modules=jdk.incubator.vector">>, "extra")
    \o (IF os = "macos" THEN Flags(<<"-XstartOnFirstThread">>, "extra") ELSE <<>>)
    \o Flags(compatibility_flags, "extra")
    \o append_jvm_preset_args(ctx.preset)
    \o [k \in 1..Len(ctx.custom) |-> [ctx.custom[k] EXCEPT !.origin = "custom"]]

SetsLibraryPath(a) == a.head = "-Djava.library.path="

\* The assembler's own -Djava.library.path, unless the template has one.
library_path_args(jvm) ==
    IF ~\E k \in 1..Len(jvm) : SetsLibraryPath(jvm[k])
      THEN <<Arg("-Djava.library.path=", "", "natives_directory", <<>>, "library_path")>>
      ELSE <<>>

\* The fixed game arguments of a template without game arguments.
fallback_game_args ==
    <<Arg("--username", "", "", <<>>, "fallback"),
      Arg("", "", "auth_player_name", <<>>, "fallback"),
      Arg("--version", "", "", <<>>, "fallback"),
      Arg("", "", "version_name", <<>>, "fallback"),
      Arg("--gameDir", "", "", <<>>, "fallback"),
      Arg("", "", "game_directory", <<>>, "fallback"),
      Arg("--assetsDir", "", "", <<>>, "fallback"),
      Arg("", "", "assets_root", <<>>, "fallback"),
      Arg("--assetIndex", "", "", <<>>, "fallback"),
      Arg("", "", "assets_index_name", <<>>, "fallback"),
      Arg("--uuid", "", "", <<>>, "fallback"),
      Arg("", "", "auth_uuid", <<>>, "fallback"),
      Arg("--accessToken", "", "", <<>>, "fallback"),
      Arg("", "", "auth_access_token", <<>>, "fallback"),
      Arg("--userType", "", "", <<>>, "fallback"),
      Arg("", "", "user_type", <<>>, "fallback")>>

\* The vector build_args_from_version_json pushes together.
assemble_LibraryPathLast(extra, jvm, cp, game, os) ==
    <<Arg("-Xmx", "", "max_memory_mb", <<>>, "memory")>>
    \o extra
    \o deduplicate_module_path_args(jvm, os)
    \o library_path_args(jvm)
    \o <<Arg("-cp", "", "", <<>>, "cp"),
         Arg("", "", "", filter_classpath_conflicts(cp,
                dedup_preserve_order(extract_module_path_libraries(jvm, os)), os),
             "classpath"),
         Arg("", "", "main_class", <<>>, "main_class")>>
    \o (IF game = <<>> THEN fallback_game_args
        ELSE filter_unresolved_game_args(game))

assemble(extra, jvm, cp, game, os) ==
    <<Arg("-Xmx", "", "max_memory_mb", <<>>, "memory")>>
    \o extra
    \o library_path_args(jvm)
    \o deduplicate_module_path_args(jvm, os)
    \o <<Arg("-cp", "", "", <<>>, "cp"),
         Arg("", "", "", filter_classpath_conflicts(cp,
                dedup_preserve_order(extract_module_path_libraries(jvm, os)), os),
             "classpath"),
         Arg("", "", "main_class", <<>>, "main_class")>>
    \o (IF game = <<>> THEN fallback_game_args
        ELSE filter_unresolved_game_args(game))


\* Inputs of the assembler: classpath entries, template arguments, custom
\* JVM flags.
ClasspathEntries ==
    { PathOf("/", "a/b.jar"), PathOf("\\", "a/b.jar"), PathOf("//", "a/b.jar"),
      PathOf("/", "A/B.JAR"), PathOf("/", "c/d.jar") }

JvmArgs ==
    { Lit("-cp"), Placeholder("", "classpath"),
      Placeholder("-Djava.library.path=", "natives_directory"),
      Placeholder("-Dfml.server=", "server_ip"),
      Lit("-p"),
      PathList(<<PathOf("/", "a/b.jar"), PathOf("\\", "a/b.jar")>>) }

GameArgs ==
    { Lit("--width"), Lit("--demo"), Lit("--server"),
      Placeholder("", "resolution_width"), Placeholder("", "server_ip") }

CustomArgs == { Lit("-cp"), Lit("mods.jar") }

Plains(q) == [k \in 1..Len(q) |-> Plain(q[k])]

DefaultJvm ==
    << Plain(Placeholder("-Djava.library.path=", "natives_directory")),
       Plain(Lit("-cp")),
       Plain(Placeholder("", "classpath")),
       Item(<<[action |-> "allow", os |-> "osx"]>>, <<Lit("-XstartOnFirstThread")>>) >>

ModularJvm ==
    << Plain(Lit("-p")),
       Plain(PathList(<<PathOf("/", "c/d.jar"), PathOf("/", "c/d.jar")>>)),
       Plain(Lit("-classpath")),
       Plain(Placeholder("", "classpath")) >>

DefaultGame ==
    Plains(<< Lit("--username"), Placeholder("", "auth_player_name"),
              Lit("--width"), Placeholder("", "resolution_width") >>)

DefaultClasspath == << PathOf("/", "a/b.jar"), PathOf("/", "c/d.jar") >>

DefaultContext == [preset |-> "zgc_gen", custom |-> <<Lit("-Dcustom=1")>>]

\* The classpath varies.
InitClasspathInputs ==
    /\ cp_input \in SeqsUpTo(ClasspathEntries, MaxEntries)
    /\ template \in { [jvm |-> j, game |-> DefaultGame] : j \in {DefaultJvm, ModularJvm} }
    /\ context = DefaultContext

\* The JVM arguments of the template and the profile's flags vary.
InitJvmInputs ==
    /\ cp_input = DefaultClasspath
    /\ template \in { [jvm |-> Plains(q), game |-> g] :
                        q \in SeqsUpTo(JvmArgs, MaxJvmArgs), g \in {<<>>, DefaultGame} }
    /\ context \in [preset : {NoPreset, "zgc_gen"}, custom : SeqsUpTo(CustomArgs, MaxCustom)]

\* The game arguments of the template vary.
InitGameInputs ==
    /\ cp_input = DefaultClasspath
    /\ template \in { [jvm |-> DefaultJvm, game |-> Plains(q)] :
                        q \in SeqsUpTo(GameArgs, MaxGameArgs) }
    /\ context = DefaultContext

InitAsm ==
    /\ target_os \in TargetOs
    /\ InitClasspathInputs \/ InitJvmInputs \/ InitGameInputs
    /\ apc = "classpath"
    /\ classpath = <<>>
    /\ jvm_args = <<>>
    /\ game_args = <<>>
    /\ args = <<>>

AsmFrame == UNCHANGED <<target_os, template, context, cp_input,
                        dlVars, mergeVars, ruleVars, launchVars, loaderVars, instVars>>

\* load_merged_version_json, mainClass, build_classpath_from_version_json
\* and the two dedup_preserve_order calls
BuildClasspath ==
    /\ apc = "classpath"
    /\ \/ /\ apc' = "failed"
          /\ UNCHANGED classpath
       \/ /\ classpath' = dedup_preserve_order(dedup_preserve_order(cp_input))
          /\ apc' = "natives"
    /\ UNCHANGED <<jvm_args, game_args, args>>
    /\ AsmFrame

\* spawn_blocking(extract_natives_from_version_json).await??
ExtractNatives ==
    /\ apc = "natives"
    /\ apc' \in {"substitute", "failed"}
    /\ UNCHANGED <<classpath, jvm_args, game_args, args>>
    /\ AsmFrame

\* extract_arguments and substitute_vars on every argument
SubstituteVars ==
    /\ apc = "substitute"
    /\ LET a == extract_arguments(template, target_os)
       IN  /\ jvm_args' = [k \in 1..Len(a.jvm) |-> substitute_vars(a.jvm[k], classpath)]
           /\ game_args' = [k \in 1..Len(a.game) |-> substitute_vars(a.game[k], classpath)]
    /\ apc' = "filter"
    /\ UNCHANGED <<classpath, args>>
    /\ AsmFrame

\* jvm_args = filter_jvm_args(jvm_args)
FilterJvmArgs ==
    /\ apc = "filter"
    /\ jvm_args' = filter_jvm_args(jvm_args)
    /\ apc' = "assemble"
    /\ UNCHANGED <<classpath, game_args, args>>
    /\ AsmFrame

\* The pushes onto `args` and Ok(args)
Assemble ==
    /\ apc = "assemble"
    /\ args' = assemble(extra_jvm_args(context, target_os), jvm_args, classpath,
                        game_args, target_os)
    /\ game_args' = IF game_args = <<>> THEN game_args
                    ELSE filter_unresolved_game_args(game_args)
    /\ apc' = "done"
    /\ UNCHANGED <<classpath, jvm_args>>
    /\ AsmFrame


\* The template arguments after flattening and substitution, as
\* build_args_from_version_json sees them before any filter.
SubstitutedTemplate ==
    LET a == extract_arguments(template, target_os)
    IN  [jvm |-> [k \in 1..Len(a.jvm) |-> substitute_vars(a.jvm[k], classpath)],
         game |-> [k \in 1..Len(a.game) |-> substitute_vars(a.game[k], classpath)]]

IsClasspathFlag(a) == IsExactly(a, "-cp") \/ IsExactly(a, "-classpath")

(***************************************************************************)
(* C15: the returned vector holds exactly one -cp/-classpath flag, the     *)
(* assembler's own, immediately followed by the assembled classpath; no    *)
(* -cp/-classpath token (nor its value) of the template's JVM arguments or *)
(* of the extra/custom flags is in the vector.                             *)
(***************************************************************************)
ExactlyOneClasspathFlag ==
    apc = "done" =>
        /\ Cardinality({ k \in 1..Len(args) : IsClasspathFlag(args[k]) }) = 1
        /\ \A k \in 1..Len(args) :
              IsClasspathFlag(args[k]) =>
                  /\ args[k].origin = "cp"
                  /\ k < Len(args) /\ args[k + 1].origin = "classpath"
        /\ \A i \in 1..Len(SubstitutedTemplate.jvm) :
              /\ IsClasspathFlag(SubstitutedTemplate.jvm[i])
              /\ i > 1 => ~IsClasspathFlag(SubstitutedTemplate.jvm[i - 1])
              => \A k \in 1..Len(args) :
                    args[k].origin = "jvm" => args[k].idx \notin {i, i + 1}

(***************************************************************************)
(* C16: filter_unresolved_game_args drops a flag together with its value   *)
(* whenever the value still contains "${": for every value-taking flag     *)
(* immediately followed by a value with an unresolved placeholder neither  *)
(* token is in the output, and the tokens kept are in their order.         *)
(***************************************************************************)
ValueTakingFlags ==
    value_flags \cup {"--username", "--version", "--gameDir", "--assetsDir",
                      "--assetIndex", "--uuid", "--accessToken", "--userType",
                      "--server", "--port"}

UnresolvedPairsDropped ==
    apc = "done" /\ SubstitutedTemplate.game # <<>> =>
        LET g == SubstitutedTemplate.game
        IN  /\ \A i \in 1..(Len(g) - 1) :
                  /\ \E f \in ValueTakingFlags : IsExactly(g[i], f)
                  /\ Unresolved(g[i + 1])
                  => \A k \in 1..Len(game_args) : game_args[k].idx \notin {i, i + 1}
            /\ \A j, k \in 1..Len(game_args) :
                  j < k => game_args[j].idx < game_args[k].idx
            /\ \A k \in 1..Len(game_args) : game_args[k] = g[game_args[k].idx]

(***************************************************************************)
(* C17: no argument of the returned vector, JVM or game, still contains an *)
(* unresolved ${...} placeholder.                                          *)
(***************************************************************************)
NoUnresolvedPlaceholder ==
    apc = "done" => \A k \in 1..Len(args) : ~Unresolved(args[k])

(***************************************************************************)
(* C18: the returned vector is ordered: -Xmx first, then the extra/compat  *)
(* flags, the preset flags, the custom flags, the assembler's              *)
(* -Djava.library.path (present iff no template JVM argument that is kept  *)
(* sets it), the template JVM arguments in their order, the value of each  *)
(* module-path flag de-duplicated, -cp, the classpath, the main class, and *)
(* last the game                                                           *)
(* arguments in their order, or the fixed fallback flags iff the template  *)
(* has no game arguments.                                                  *)
(***************************************************************************)
Rank(origin) ==
    CASE origin = "memory" -> 1
      [] origin = "extra" -> 2
      [] origin = "preset" -> 3
      [] origin = "custom" -> 4
      [] origin = "library_path" -> 5
      [] origin = "jvm" -> 6
      [] origin = "cp" -> 7
      [] origin = "classpath" -> 8
      [] origin = "main_class" -> 9
      [] origin \in {"game", "fallback"} -> 10
      [] OTHER -> 0

From(origin) == { k \in 1..Len(args) : args[k].origin = origin }

NoNormalizedDuplicates(paths) ==
    \A j, k \in 1..Len(paths) :
        j < k => normalize_path_for_compare(paths[j], target_os)
                    # normalize_path_for_compare(paths[k], target_os)

ArgumentOrder ==
    apc = "done" =>
        /\ \A k \in 1..Len(args) : Rank(args[k].origin) > 0
        /\ \A j, k \in 1..Len(args) :
              j < k => /\ Rank(args[j].origin) <= Rank(args[k].origin)
                       /\ args[j].origin = args[k].origin => args[j].idx <= args[k].idx
        /\ args[1].head = "-Xmx"
        /\ \A o \in {"memory", "cp", "classpath", "main_class"} : Cardinality(From(o)) = 1
        /\ Len(SelectSeq(args, LAMBDA a : a.origin = "preset"))
              = Len(append_jvm_preset_args(context.preset))
        /\ [k \in 1..Len(context.custom) |-> [context.custom[k] EXCEPT !.origin = "custom"]]
              = SelectSeq(args, LAMBDA a : a.origin = "custom")
        /\ From("library_path") # {}
              <=> ~\E k \in From("jvm") : SetsLibraryPath(args[k])
        /\ Cardinality(From("library_path")) <= 1
        /\ \A k \in From("jvm") :
              /\ IsModulePathFlag(args[k]) /\ args[k + 1].origin = "jvm"
              /\ args[k + 1].idx # args[k].idx
              /\ ~(args[k - 1].origin = "jvm" /\ IsModulePathFlag(args[k - 1]))
              => NoNormalizedDuplicates(args[k + 1].paths)
        /\ From("fallback") # {} <=> SubstitutedTemplate.game = <<>>
        /\ From("fallback") # {} =>
              SelectSeq(args, LAMBDA a : a.origin = "fallback") = fallback_game_args
        /\ From("game") # {} => SubstitutedTemplate.game # <<>>

\* A vector with preset and custom flags, the assembler's library path, a
\* module path that lost a duplicate, and game arguments.
ArgumentOrderWitness ==
    /\ apc = "done"
    /\ From("preset") # {} /\ From("custom") # {}
    /\ From("library_path") # {} /\ From("game") # {}
    /\ \E k \in From("jvm") :
          /\ IsModulePathFlag(args[k])
          /\ args[k + 1].origin = "jvm"
          /\ Len(args[k + 1].paths) = 1
          /\ Len(SubstitutedTemplate.jvm[args[k + 1].idx].paths) = 2

(***************************************************************************)
(* C19: the classpath is de-duplicated after normalising slash direction   *)
(* and, on a case-insensitive target, letter case: of the entries equal    *)
(* after normalisation only the first is kept, in first-seen order.        *)
(***************************************************************************)
FirstSeen ==
    { i \in 1..Len(cp_input) :
        \A j \in 1..(i - 1) :
            normalize_path_for_compare(cp_input[j], target_os)
                # normalize_path_for_compare(cp_input[i], target_os) }

ClasspathDedupNormalized ==
    apc \notin {"classpath", "failed"} =>
        /\ NoNormalizedDuplicates(classpath)
        /\ Len(classpath) = Cardinality(FirstSeen)
        /\ \A k \in 1..Len(classpath) :
              \E i \in FirstSeen :
                  /\ Cardinality({ j \in FirstSeen : j <= i }) = k
                  /\ classpath[k] = cp_input[i]

(***************************************************************************)
(* Loader installers: FabricInstaller::install (services/fabric.rs),       *)
(* QuiltInstaller::install (services/quilt.rs) and                         *)
(* NeoForgeInstaller::get_latest_stable_for_mc (services/neoforge.rs)      *)
(***************************************************************************)
LoaderInstallers == {"fabric", "quilt", "neoforge"}

\* A loader build of the metadata: its version, whether it is a stable
\* build (the `stable` field of Fabric, a version without alpha, beta, rc
\* or snapshot otherwise) and whether it is built for the requested engine
\* version (the NeoForge prefix <minor>.<patch>).
LoaderBuilds == [version : 1..MaxBuilds, stable : BOOLEAN, mc : BOOLEAN]

\* loader_version: None
NoVersion == 0

NoBuild == [version |-> NoVersion, stable |-> FALSE, mc |-> FALSE]

\* Iterator::find: the index of the first build of vs that is in S, 0 if
\* there is none.
find(vs, S) ==
    IF \E k \in 1..Len(vs) : vs[k] \in S
      THEN CHOOSE k \in 1..Len(vs) :
              vs[k] \in S /\ \A j \in 1..(k - 1) : vs[j] \notin S
      ELSE 0

Picked(vs, k) == IF k = 0 THEN NoBuild ELSE vs[k]

\* is_stable_version
is_stable_version(b) == b.stable

\* FabricInstaller::install: `find(|lv| lv.loader.version == v)` for a
\* requested version, else `find(|lv| lv.loader.stable).or(versions.first())`.
fabric_select(vs, v) ==
    IF v # NoVersion
      THEN Picked(vs, find(vs, { b \in LoaderBuilds : b.version = v }))
      ELSE IF find(vs, { b \in LoaderBuilds : b.stable }) # 0
             THEN Picked(vs, find(vs, { b \in LoaderBuilds : b.stable }))
             ELSE Picked(vs, find(vs, LoaderBuilds))

\* QuiltInstaller::install: the requested version, else versions.first().
quilt_select(vs, v) ==
    IF v # NoVersion
      THEN Picked(vs, find(vs, { b \in LoaderBuilds : b.version = v }))
      ELSE Picked(vs, find(vs, LoaderBuilds))

\* get_latest_stable_for_mc: retain the prefix, retain the stable versions,
\* sort descending, take the first.
latest_stable_for_mc(vs) ==
    LET kept == { k \in 1..Len(vs) : vs[k].mc /\ is_stable_version(vs[k]) }
    IN  IF kept = {} THEN NoBuild
        ELSE vs[CHOOSE k \in kept :
                  /\ \A j \in kept : vs[j].version <= vs[k].version
                  /\ \A j \in kept : vs[j].version = vs[k].version => k <= j]

\* The libraries of a Fabric or Quilt build handed to download_many: the
\* intermediary and the loader.
loader_tasks == 2

InitLoader ==
    /\ installer \in LoaderInstallers
    /\ versions \in SeqsUpTo(LoaderBuilds, MaxBuilds)
    /\ installer \in {"fabric", "quilt"} => \A k \in 1..Len(versions) : versions[k].mc
    /\ loader_version \in {NoVersion} \cup (1..MaxBuilds)
    /\ installer = "neoforge" => loader_version = NoVersion
    /\ ipos = "start"
    /\ version = NoBuild
    /\ fetched = 0
    /\ installed = "pending"

LoaderFrame == UNCHANGED <<installer, versions, loader_version,
                           dlVars, mergeVars, ruleVars, launchVars, asmVars,
                           instVars>>

\* self.get_loader_versions(mc_version).await? and the is_empty check
GetLoaderVersions ==
    /\ ipos = "start"
    /\ installer \in {"fabric", "quilt"}
    /\ \/ /\ versions # <<>>
          /\ ipos' = "select"
          /\ UNCHANGED installed
       \/ \* the request fails, or the list is empty
          /\ ipos' = "done"
          /\ installed' = "Err"
    /\ UNCHANGED <<version, fetched>>
    /\ LoaderFrame

\* The selected build, or the error of ok_or_else
Select(b) ==
    IF b = NoBuild
      THEN /\ ipos' = "done"
           /\ installed' = "Err"
           /\ UNCHANGED version
      ELSE /\ ipos' = "download"
           /\ version' = b
           /\ UNCHANGED installed

FabricSelect ==
    /\ ipos = "select"
    /\ installer = "fabric"
    /\ Select(fabric_select(versions, loader_version))
    /\ UNCHANGED fetched
    /\ LoaderFrame

QuiltSelect ==
    /\ ipos = "select"
    /\ installer = "quilt"
    /\ Select(quilt_select(versions, loader_version))
    /\ UNCHANGED fetched
    /\ LoaderFrame

\* download_many(tasks) and the loop over its results
DownloadLoader ==
    /\ ipos = "download"
    /\ fetched' = loader_tasks
    /\ \E ok \in BOOLEAN : installed' = IF ok THEN "Ok" ELSE "Err"
    /\ ipos' = "done"
    /\ UNCHANGED version
    /\ LoaderFrame

\* NeoForgeInstaller::get_latest_stable_for_mc
GetLatestStableForMc ==
    /\ ipos = "start"
    /\ installer = "neoforge"
    /\ \/ \* the maven metadata cannot be fetched
          /\ installed' = "Err"
          /\ UNCHANGED version
       \/ /\ version' = latest_stable_for_mc(versions)
          /\ installed' = IF latest_stable_for_mc(versions) = NoBuild THEN "Err" ELSE "Ok"
    /\ ipos' = "done"
    /\ UNCHANGED fetched
    /\ LoaderFrame

(***************************************************************************)
(* C23: a loader installer fails, downloading nothing, when no compatible  *)
(* stable build exists for the engine version or when the requested loader *)
(* version is not in the list; the build it installs is the requested one, *)
(* or else a stable compatible one.                                        *)
(***************************************************************************)
CompatibleStable == { k \in 1..Len(versions) : versions[k].stable /\ versions[k].mc }

Listed(v) == \E k \in 1..Len(versions) : versions[k].version = v

LoaderFailsFast ==
    /\ version # NoBuild =>
          IF loader_version # NoVersion
            THEN version.version = loader_version
            ELSE version.stable /\ version.mc
    /\ (\/ loader_version = NoVersion /\ CompatibleStable = {}
        \/ loader_version # NoVersion /\ ~Listed(loader_version))
       => version = NoBuild /\ fetched = 0 /\ installed # "Ok"

(***************************************************************************)
(* Profile creation and installation: create_profile and launch_profile's  *)
(* install check (commands/profile.rs), install_server_modpack,            *)
(* update_modpack and create_profile_internal (commands/modpack.rs),       *)
(* MinecraftInstaller::install / install_with_progress                     *)
(* (services/minecraft.rs) and get_unique_id (utils/names.rs)              *)
(***************************************************************************)
Runs == 1..NumRuns

Commands == {"create_profile", "install_server_modpack", "update_modpack"}

ProfileNames == {"My Pack", "my pack"}

\* The loaders of the requests: one per arm of the loader match that
\* behaves differently.
RequestLoaders == {"Vanilla", "NeoForge", "Forge"}

\* slugify: lowercase, runs of other characters become one hyphen.
slugify(name) ==
    CASE name = "My Pack" -> "my-pack"
      [] name = "my pack" -> "my-pack"
      [] OTHER -> name

\* A profile id: the slug, and the counter of format!("{}-{}") (0: none).
SlugId(base, counter) == <<base, counter>>

NoId == <<"", 0>>

\* get_unique_id: the loop from `candidate` on.
RECURSIVE unique_id_loop(_, _, _, _)
unique_id_loop(base_slug, existing_ids, candidate, counter) ==
    IF candidate \in existing_ids
      THEN unique_id_loop(base_slug, existing_ids,
                          SlugId(base_slug, counter), counter + 1)
      ELSE candidate

get_unique_id(name, existing_ids) ==
    unique_id_loop(slugify(name), existing_ids, SlugId(slugify(name), 0), 1)

\* profiles.profiles.iter().map(|p| p.id.clone()).collect()
existing_ids(ps) == { ps[k].id : k \in 1..Len(ps) }

\* The Profile a request makes. loader_version is known when the request
\* carries one: create_profile's NeoForge request leaves it to the install
\* task, a modpack plan names it.
Profile(id, req, r) ==
    [id |-> id, name |-> req.name, loader |-> req.loader,
     loader_version |-> req.kind # "create_profile", by |-> r]

\* paths::get_profile_dir
get_profile_dir(id) == id

PROFILE_INSTALL_EVENT == "profile_install_progress"

MODPACK_INSTALL_EVENT == "modpack_install_progress"

emit_install(stage, message, st) ==
    [name |-> PROFILE_INSTALL_EVENT, stage |-> stage, message |-> message,
     status |-> st]

emit_modpack_progress(stage, message, st) ==
    [name |-> MODPACK_INSTALL_EVENT, stage |-> stage, message |-> message,
     status |-> st]

\* The libraries of the version: one without rules and one for macOS only.
VersionLibraries ==
    << [name |-> "core", rules |-> <<>>],
       [name |-> "natives-osx", rules |-> <<[action |-> "allow", os |-> "osx"]>>] >>

\* The libraries download_libraries makes tasks for.
LibraryTasks ==
    { k \in 1..Len(VersionLibraries) :
        check_library_rules(VersionLibraries[k].rules, currentOs) }

NotDownloaded == <<>>

\* No launch_profile call has been made for the profile.
NotLaunched == [outcome |-> "none", by |-> 0, install |-> "none"]

InitInstall ==
    /\ command \in [Runs -> [kind : Commands, name : ProfileNames,
                              loader : RequestLoaders]]
    /\ command[1].kind = "create_profile" /\ command[1].name = "My Pack"
    /\ profiles = <<>>
    /\ saved = <<>>
    /\ dirs = {}
    /\ rpc = [r \in Runs |-> "call"]
    /\ rid = [r \in Runs |-> NoId]
    /\ emitted = [r \in Runs |-> <<>>]
    /\ cret = [r \in Runs |-> "pending"]
    /\ task = [r \in Runs |-> "none"]
    /\ mcret = [r \in Runs |-> "pending"]
    /\ lib_results = [r \in Runs |-> NotDownloaded]
    /\ jar = "absent"
    /\ neoforge_json = FALSE
    /\ launchOf = [r \in Runs |-> NotLaunched]

InstFrame == UNCHANGED <<command, dlVars, mergeVars, ruleVars, launchVars,
                         asmVars, loaderVars>>

Kind(r) == command[r].kind

\* The events install_with_progress emits through emit_progress; install,
\* which the modpack commands call, emits none.
Progress(r, messages) ==
    IF Kind(r) = "create_profile"
      THEN [k \in 1..Len(messages) |->
              emit_install("downloading_minecraft", messages[k], "progress")]
      ELSE <<>>

\* The run goes on to position p after emitting evs.
Goes(r, p, evs) ==
    /\ rpc' = [rpc EXCEPT ![r] = p]
    /\ emitted' = [emitted EXCEPT ![r] = @ \o evs]
    /\ UNCHANGED <<cret, task>>

\* The run fails with the error e after emitting evs. create_profile's
\* task emits the failed event (`Err(e) => emit_install(.., "failed", &e,
\* 0.0, "failed")`); in the modpack commands `?` returns the error.
Fails(r, e, evs) ==
    /\ rpc' = [rpc EXCEPT ![r] = "done"]
    /\ IF Kind(r) = "create_profile"
         THEN /\ emitted' = [emitted EXCEPT ![r] =
                               @ \o evs \o <<emit_install("failed", e, "failed")>>]
              /\ task' = [task EXCEPT ![r] = "Err"]
              /\ UNCHANGED cret
         ELSE /\ emitted' = [emitted EXCEPT ![r] = @ \o evs]
              /\ cret' = [cret EXCEPT ![r] = "Err"]
              /\ UNCHANGED task

\* The run ends successfully after emitting evs: create_profile's task
\* emits the complete event, the modpack commands return Ok.
Succeeds(r, evs) ==
    /\ rpc' = [rpc EXCEPT ![r] = "done"]
    /\ emitted' = [emitted EXCEPT ![r] = @ \o evs]
    /\ IF Kind(r) = "create_profile"
         THEN task' = [task EXCEPT ![r] = "Ok"] /\ UNCHANGED cret
         ELSE cret' = [cret EXCEPT ![r] = "Ok"] /\ UNCHANGED task

\* create_profile: the first block under the state lock
GetUniqueId(r) ==
    /\ rpc[r] = "call"
    /\ Kind(r) = "create_profile"
    /\ rid' = [rid EXCEPT ![r] = get_unique_id(command[r].name, existing_ids(profiles))]
    /\ rpc' = [rpc EXCEPT ![r] = "mkdir"]
    /\ UNCHANGED <<profiles, saved, dirs, emitted, cret, task, mcret,
                   lib_results, jar, neoforge_json, launchOf>>
    /\ InstFrame

\* create_profile: create_dir_all of the profile directory and its
\* subfolders, each with `?`
CreateProfileDir(r) ==
    /\ rpc[r] = "mkdir"
    /\ \/ /\ dirs' = dirs \cup {get_profile_dir(rid[r])}
          /\ rpc' = [rpc EXCEPT ![r] = "persist"]
          /\ UNCHANGED cret
       \/ /\ dirs' \in {dirs, dirs \cup {get_profile_dir(rid[r])}}
          /\ rpc' = [rpc EXCEPT ![r] = "done"]
          /\ cret' = [cret EXCEPT ![r] = "Err"]
    /\ UNCHANGED <<profiles, saved, rid, emitted, task, mcret, lib_results,
                   jar, neoforge_json, launchOf>>
    /\ InstFrame

\* create_profile: push and save_profiles under the state lock, then
\* tokio::spawn of the install task and Ok(new_profile)
Persist(r) ==
    /\ rpc[r] = "persist"
    /\ profiles' = Append(profiles, Profile(rid[r], command[r], r))
    /\ \/ /\ saved' = profiles'
          /\ cret' = [cret EXCEPT ![r] = "Ok"]
          /\ task' = [task EXCEPT ![r] = "running"]
          /\ rpc' = [rpc EXCEPT ![r] = "details"]
       \/ \* save_profiles fails
          /\ cret' = [cret EXCEPT ![r] = "Err"]
          /\ rpc' = [rpc EXCEPT ![r] = "done"]
          /\ UNCHANGED <<saved, task>>
    /\ UNCHANGED <<dirs, rid, emitted, mcret, lib_results, jar,
                   neoforge_json, launchOf>>
    /\ InstFrame

\* The events a modpack command emits before MinecraftInstaller::install
BeforeInstall(r) ==
    IF Kind(r) = "create_profile" THEN <<>>
    ELSE <<emit_modpack_progress("installing_minecraft",
                                 "Installing Minecraft...", "progress")>>

\* MinecraftInstaller::install fails: the error goes to the caller.
InstallFails(r, evs) ==
    /\ mcret' = [mcret EXCEPT ![r] = "Err"]
    /\ Fails(r, "Minecraft install failed", evs)

\* self.get_version_details(version).await?
GetVersionDetails(r) ==
    LET evs == BeforeInstall(r) \o Progress(r, <<"Fetching Minecraft info...">>)
    IN  /\ rpc[r] = "details"
        /\ \/ Goes(r, "client", evs) /\ UNCHANGED mcret
           \/ InstallFails(r, evs)
        /\ UNCHANGED <<profiles, saved, dirs, rid, lib_results, jar,
                       neoforge_json, launchOf>>
        /\ InstFrame

\* self.download_client(&version_details).await?: download_file of the
\* version jar, which returns Ok at once for a jar that verifies.
DownloadClient(r) ==
    LET evs == Progress(r, <<"Downloading Minecraft client...">>)
    IN  /\ rpc[r] = "client"
        /\ \/ /\ jar' = "verified"
              /\ Goes(r, "libraries",
                      evs \o Progress(r, <<"Minecraft client downloaded">>))
              /\ UNCHANGED mcret
           \/ /\ jar' \in IF jar = "verified" THEN {jar} ELSE {jar, "unverified"}
              /\ InstallFails(r, evs)
        /\ UNCHANGED <<profiles, saved, dirs, rid, lib_results, neoforge_json,
                       launchOf>>
        /\ InstFrame

\* download_libraries / download_libraries_with_progress: the failed
\* results are logged and Ok(()) is returned.
DownloadLibraries(r) ==
    LET downloading == [k \in 1..Cardinality(LibraryTasks) |-> "Downloading libraries"]
        evs == Progress(r, <<"Preparing libraries...">> \o downloading)
    IN  /\ rpc[r] = "libraries"
        /\ \E results \in [LibraryTasks -> {"Ok", "RetryExhausted"}] :
              lib_results' = [lib_results EXCEPT ![r] = results]
        /\ Goes(r, "assets", evs)
        /\ UNCHANGED <<profiles, saved, dirs, rid, mcret, jar, neoforge_json,
                       launchOf>>
        /\ InstFrame

\* download_assets / download_assets_with_progress: the asset index with
\* `?`, the objects' failed results are logged.
DownloadAssets(r) ==
    LET evs == Progress(r, <<"Preparing assets...">>)
    IN  /\ rpc[r] = "assets"
        /\ \/ Goes(r, "save", evs \o Progress(r, <<"Downloading assets">>))
              /\ UNCHANGED mcret
           \/ InstallFails(r, evs)
        /\ UNCHANGED <<profiles, saved, dirs, rid, lib_results, jar,
                       neoforge_json, launchOf>>
        /\ InstFrame

\* self.save_version_json(version, &version_details).await?; Ok(())
SaveVersionJson(r) ==
    LET evs == Progress(r, <<"Saving version data...">>)
    IN  /\ rpc[r] = "save"
        /\ \/ /\ mcret' = [mcret EXCEPT ![r] = "Ok"]
              /\ Goes(r, "loader", evs \o Progress(r, <<"Minecraft ready">>))
           \/ InstallFails(r, evs)
        /\ UNCHANGED <<profiles, saved, dirs, rid, lib_results, jar,
                       neoforge_json, launchOf>>
        /\ InstFrame

\* The event emitted before the loader match.
BeforeLoader(r) ==
    CASE Kind(r) = "create_profile" ->
           <<emit_install("downloading_loader", "Preparing mod loader", "progress")>>
      [] Kind(r) = "install_server_modpack" ->
           <<emit_modpack_progress("installing_loader", "Installing loader...", "progress")>>
      [] OTHER ->
           <<emit_modpack_progress("installing_loader", "Verifying Loader...", "progress")>>

\* What follows a successful loader installation: create_profile's task
\* emits "finalizing" and ends with the complete event, the modpack
\* commands go on with the bundle.
LoaderInstalled(r, evs) ==
    IF Kind(r) = "create_profile"
      THEN Succeeds(r, evs \o
             <<emit_install("finalizing", "Finalizing installation", "progress"),
               emit_install("complete", "Installation complete!", "complete")>>)
      ELSE Goes(r, "bundle", evs)

\* profiles.iter_mut().find(|p| p.id == id): the index of the first
\* profile with that id, 0 if there is none.
find_profile(ps, id) ==
    IF \E k \in 1..Len(ps) : ps[k].id = id
      THEN CHOOSE k \in 1..Len(ps) :
              ps[k].id = id /\ \A j \in 1..(k - 1) : ps[j].id # id
      ELSE 0

\* The loader match of create_profile's task, install_server_modpack and
\* update_modpack, up to the call of the NeoForge installer.
MatchLoader(r) ==
    LET evs == BeforeLoader(r)
        java == IF Kind(r) = "install_server_modpack"
                  THEN <<emit_modpack_progress("installing_java",
                           "Ensuring Java is installed...", "progress")>>
                  ELSE <<>>
        installing == IF Kind(r) = "install_server_modpack"
                        THEN <<emit_modpack_progress("installing_loader",
                                 "Installing NeoForge...", "progress")>>
                        ELSE <<>>
        l == command[r].loader
        k == find_profile(profiles, rid[r])
    IN  /\ rpc[r] = "loader"
        /\ \/ /\ l = "Vanilla"
              /\ LoaderInstalled(r, evs)
              /\ UNCHANGED <<profiles, saved>>
           \/ \* `other => Err(..)`, `loader => return Err(..)`, and `_ => {}`
              \* in update_modpack
              /\ l = "Forge"
              /\ IF Kind(r) = "update_modpack"
                   THEN LoaderInstalled(r, evs)
                   ELSE Fails(r, "Installer is not implemented yet", evs)
              /\ UNCHANGED <<profiles, saved>>
           \/ \* Java is not found or cannot be installed, or the latest
              \* stable NeoForge version cannot be resolved
              /\ l = "NeoForge"
              /\ Fails(r, "Java not found", evs \o java)
              /\ UNCHANGED <<profiles, saved>>
           \/ \* create_profile resolves the version and saves it to the
              \* profile (`let _ = state.save_profiles().await`)
              /\ l = "NeoForge"
              /\ Kind(r) = "create_profile"
              /\ profiles' = IF k = 0 THEN profiles
                             ELSE [profiles EXCEPT ![k].loader_version = TRUE]
              /\ saved' \in {saved, profiles'}
              /\ Goes(r, "neoforge", evs \o
                   << emit_install("downloading_loader", "Resolved NeoForge version", "progress"),
                      emit_install("downloading_loader", "Installing NeoForge", "progress") >>)
           \/ /\ l = "NeoForge"
              /\ Kind(r) # "create_profile"
              /\ Goes(r, "neoforge", evs \o java \o installing)
              /\ UNCHANGED <<profiles, saved>>
        /\ UNCHANGED <<dirs, rid, mcret, lib_results, jar, neoforge_json, launchOf>>
        /\ InstFrame

\* neoforge_installer.install(&mc_version, &chosen, &java_path).await?
InstallNeoForge(r) ==
    /\ rpc[r] = "neoforge"
    /\ \/ /\ neoforge_json' = TRUE
          /\ LoaderInstalled(r, <<>>)
       \/ /\ UNCHANGED neoforge_json
          /\ Fails(r, "NeoForge install failed", <<>>)
    /\ UNCHANGED <<profiles, saved, dirs, rid, mcret, lib_results, jar, launchOf>>
    /\ InstFrame

\* install_server_modpack and update_modpack: the install plan is fetched
\* from the backend; update_modpack then cleans the profile's mods and
\* config directories.
FetchPlan(r) ==
    LET asking == <<emit_modpack_progress("fetching_plan",
                      IF Kind(r) = "update_modpack"
                        THEN "Checking for updates..."
                        ELSE "Requesting modpack from server...", "progress")>>
        cleaning == <<emit_modpack_progress("cleaning", "Cleaning old files...",
                      "progress")>>
    IN  /\ rpc[r] = "call"
        /\ Kind(r) # "create_profile"
        /\ \/ Fails(r, "request failed", asking) /\ UNCHANGED rid
           \/ /\ Kind(r) = "install_server_modpack"
              /\ Goes(r, "create", asking)
              /\ UNCHANGED rid
           \/ \* update_modpack(profile_id, ..) of the profile "my-pack"
              /\ Kind(r) = "update_modpack"
              /\ rid' = [rid EXCEPT ![r] = SlugId("my-pack", 0)]
              /\ \/ Goes(r, "details", asking \o cleaning)
                 \/ Fails(r, "remove_dir_all failed", asking \o cleaning)
        /\ UNCHANGED <<profiles, saved, dirs, mcret, lib_results, jar,
                       neoforge_json, launchOf>>
        /\ InstFrame

\* create_profile_internal: id, directories, push and save under one
\* state lock
CreateProfileInternal(r) ==
    LET evs == << emit_modpack_progress("plan_received", "Installing modpack", "progress"),
                  emit_modpack_progress("creating_profile", "Creating profile...", "progress") >>
        id == get_unique_id(command[r].name, existing_ids(profiles))
    IN  /\ rpc[r] = "create"
        /\ \/ \* create_dir_all fails
              /\ Fails(r, "create_dir_all failed", evs)
              /\ UNCHANGED <<profiles, saved, dirs, rid>>
           \/ /\ dirs' = dirs \cup {get_profile_dir(id)}
              /\ profiles' = Append(profiles, Profile(id, command[r], r))
              /\ rid' = [rid EXCEPT ![r] = id]
              /\ \/ saved' = profiles' /\ Goes(r, "details", evs)
                 \/ UNCHANGED saved /\ Fails(r, "save_profiles failed", evs)
        /\ UNCHANGED <<mcret, lib_results, jar, neoforge_json, launchOf>>
        /\ InstFrame

\* Step 4 of the modpack commands: the bundle is downloaded and extracted,
\* or (install_server_modpack) the plan's files are downloaded, which ends
\* the command without a complete event.
InstallBundle(r) ==
    LET downloading == <<emit_modpack_progress("downloading",
                           "Downloading modpack bundle...", "progress")>>
        extracting == <<emit_modpack_progress("extracting",
                           "Extracting modpack...", "progress")>>
        complete == <<emit_modpack_progress("complete",
                           "Installation complete!", "complete")>>
    IN  /\ rpc[r] = "bundle"
        /\ \/ Fails(r, "bundle download failed", downloading)
           \/ /\ Kind(r) = "install_server_modpack"
              /\ \/ Succeeds(r, downloading \o extracting \o complete)
                 \/ \* `else if let Some(files) = plan.files`
                    Succeeds(r, <<>>)
           \/ /\ Kind(r) = "update_modpack"
              /\ Goes(r, "update", downloading \o extracting)
        /\ UNCHANGED <<profiles, saved, dirs, rid, mcret, lib_results, jar,
                       neoforge_json, launchOf>>
        /\ InstFrame

\* update_modpack, step 5: the profile is updated under the state lock and
\* saved, then the complete event is emitted.
UpdateProfileState(r) ==
    LET evs == <<emit_modpack_progress("reinstalling_user_mods",
                   "Reinstalling user-added mods...", "progress")>>
        k == find_profile(profiles, rid[r])
    IN  /\ rpc[r] = "update"
        /\ profiles' = IF k = 0 THEN profiles
                       ELSE [profiles EXCEPT ![k].loader = command[r].loader,
                                             ![k].loader_version = TRUE]
        /\ \/ /\ saved' = profiles'
              /\ Succeeds(r, evs \o <<emit_modpack_progress("complete",
                                        "Update complete!", "complete")>>)
           \/ UNCHANGED saved /\ Fails(r, "save_profiles failed", evs)
        /\ UNCHANGED <<dirs, rid, mcret, lib_results, jar, neoforge_json, launchOf>>
        /\ InstFrame

\* What launch_profile does for the profile p: the version jar must exist;
\* the NeoForge arm needs the resolved loader version and the NeoForge
\* version json; the other loaders have no arm.
launch_check(p) ==
    IF jar = "absent" THEN {"NotInstalled"}
    ELSE CASE p.loader = "Vanilla" -> {"Spawned", "Err"}
           [] p.loader = "NeoForge" ->
                IF ~p.loader_version \/ ~neoforge_json THEN {"NotInstalled", "Err"}
                ELSE {"Spawned", "Err"}
           [] OTHER -> {"Unsupported", "Err"}

\* launch_profile(id) for the id of run r's profile, with the result of
\* the install task of the profile it finds at that moment.
LaunchProfile(r) ==
    LET k == find_profile(profiles, rid[r])
    IN  /\ launchOf[r] = NotLaunched
        /\ Kind(r) # "update_modpack"
        /\ k # 0
        /\ \E outcome \in launch_check(profiles[k]) :
              launchOf' = [launchOf EXCEPT ![r] =
                             [outcome |-> outcome, by |-> profiles[k].by,
                              install |-> task[profiles[k].by]]]
        /\ UNCHANGED <<profiles, saved, dirs, rpc, rid, emitted, cret, task,
                       mcret, lib_results, jar, neoforge_json>>
        /\ InstFrame

(***************************************************************************)
(* C21: MinecraftInstaller::install and install_with_progress return Ok,   *)
(* and the caller's install completes, only if the client jar and every    *)
(* rule-allowed library were downloaded and verified.                      *)
(***************************************************************************)
CriticalArtifactsInstalled(r) ==
    /\ jar = "verified"
    /\ \A k \in LibraryTasks : lib_results[r][k] = "Ok"

LibraryFailureIsFatal ==
    \A r \in Runs :
      /\ mcret[r] = "Ok" => CriticalArtifactsInstalled(r)
      /\ (Kind(r) = "create_profile" /\ task[r] = "Ok") => CriticalArtifactsInstalled(r)

(***************************************************************************)
(* C22: an install run that failed has emitted a last event with status    *)
(* "failed" and a message, and no "complete" event; a run that succeeded   *)
(* has emitted exactly one "complete" event, as its last event.            *)
(***************************************************************************)
RunResult(r) == IF Kind(r) = "create_profile" THEN task[r] ELSE cret[r]

CompleteEvents(r) ==
    { k \in 1..Len(emitted[r]) : emitted[r][k].status = "complete" }

TerminalEvents ==
    \A r \in Runs :
      /\ RunResult(r) = "Err" =>
           /\ Len(emitted[r]) > 0
           /\ emitted[r][Len(emitted[r])].status = "failed"
           /\ emitted[r][Len(emitted[r])].message # ""
           /\ CompleteEvents(r) = {}
      /\ RunResult(r) = "Ok" => CompleteEvents(r) = {Len(emitted[r])}

(***************************************************************************)
(* C26: launch_profile spawns the game of a profile made by create_profile *)
(* only when the profile's install task has ended with its complete event. *)
(***************************************************************************)
NoSpawnBeforeInstalled ==
    \A r \in Runs :
      (launchOf[r].outcome = "Spawned" /\ Kind(launchOf[r].by) = "create_profile")
         => launchOf[r].install = "Ok"

(***************************************************************************)
(* C27: after the install task of create_profile has failed, the profile   *)
(* it persisted is neither in the profile list nor in the saved file.      *)
(***************************************************************************)
ProfilesBy(ps, r) == { k \in 1..Len(ps) : ps[k].by = r }

RolledBackOnInstallFailure ==
    \A r \in Runs :
      (Kind(r) = "create_profile" /\ task[r] = "Err")
         => ProfilesBy(profiles, r) = {} /\ ProfilesBy(saved, r) = {}

(***************************************************************************)
(* C30: in every reachable state no two profiles of the profile list have  *)
(* the same id or the same profile directory.                              *)
(***************************************************************************)
UniqueProfileIds ==
    \A j, k \in 1..Len(profiles) :
      j # k => /\ profiles[j].id # profiles[k].id
               /\ get_profile_dir(profiles[j].id) # get_profile_dir(profiles[k].id)

(***************************************************************************)
(* Specifications                                                          *)
(***************************************************************************)
DownloadIdle ==
    /\ tasks = <<>> /\ width = 0 /\ permits = 0 /\ holding = <<>>
    /\ fs = <<>> /\ initFs = <<>> /\ pc = <<>> /\ attempt = <<>>
    /\ body = <<>> /\ offset = <<>> /\ last_error = <<>> /\ mismatches = <<>>
    /\ lastSeen = <<>> /\ requests = <<>> /\ result = <<>>
    /\ progressMode = FALSE /\ completed = 0 /\ progress = <<>>
    /\ returned = NotReturned

MergeIdle == store = <<>> /\ loadedId = NoParent /\ merged = LoadErr

RulesIdle == rules = <<>> /\ currentOs = "linux" /\ verdict = <<>> /\ allowed = "unset"

LaunchIdle ==
    /\ loader = "Vanilla" /\ library = <<>> /\ lpc = "done" /\ launched = "pending"
    /\ extracted = <<>> /\ libraryPath = NoDir /\ sc = <<>> /\ ret = <<>>
    /\ proc = <<>> /\ code = <<>> /\ windowExit = <<>> /\ pipe = <<>>
    /\ written = <<>> /\ reader = <<>> /\ waiter = <<>> /\ status = <<>>
    /\ logSeen = <<>> /\ events = <<>>

AsmIdle ==
    /\ target_os = "linux" /\ template = <<>> /\ context = <<>> /\ cp_input = <<>>
    /\ apc = "done" /\ classpath = <<>> /\ jvm_args = <<>> /\ game_args = <<>>
    /\ args = <<>>

LoaderIdle ==
    /\ installer = "fabric" /\ versions = <<>> /\ loader_version = NoVersion
    /\ ipos = "done" /\ version = NoBuild /\ fetched = 0 /\ installed = "pending"

InstallIdle ==
    /\ command = <<>> /\ profiles = <<>> /\ saved = <<>> /\ dirs = {}
    /\ rpc = <<>> /\ rid = <<>> /\ emitted = <<>> /\ cret = <<>> /\ task = <<>>
    /\ mcret = <<>> /\ lib_results = <<>> /\ jar = "absent"
    /\ neoforge_json = FALSE /\ launchOf = <<>>

\* The download manager running one batch.
Init == InitDownload /\ MergeIdle /\ RulesIdle /\ LaunchIdle /\ AsmIdle /\ LoaderIdle /\ InstallIdle

Next ==
    \/ \E i \in TaskIds : Acquire(i)
    \/ \E i \in TaskIds : CreateDirAll(i)
    \/ \E i \in TaskIds : Precheck(i)
    \/ \E i \in TaskIds : SendRequest(i)
    \/ \E i \in TaskIds : WriteChunk(i)
    \/ \E i \in TaskIds : Verify(i)
    \/ \E i \in TaskIds : Sleep(i)
    \/ JoinAll

Spec == Init /\ [][Next]_vars

\* The descriptor resolver on a store of version jsons.
InitResolver == InitMerge /\ DownloadIdle /\ RulesIdle /\ LaunchIdle /\ AsmIdle /\ LoaderIdle /\ InstallIdle

NextResolver == \E version_id \in VersionIds : LoadMerged(version_id)

SpecResolver == InitResolver /\ [][NextResolver]_vars

\* The rule evaluation on one rule list.
InitRuleEval == InitRules /\ DownloadIdle /\ MergeIdle /\ LaunchIdle /\ AsmIdle /\ LoaderIdle /\ InstallIdle

NextRuleEval == ProfileRulesAllow \/ NeoforgeRulesAllow \/ CheckLibraryRules

SpecRules == InitRuleEval /\ [][NextRuleEval]_vars

\* One launch of a profile: launch_profile, spawn_and_check and its tasks.
InitLauncher == InitLaunch /\ DownloadIdle /\ MergeIdle /\ RulesIdle /\ AsmIdle /\ LoaderIdle /\ InstallIdle

NextLaunch ==
    \/ StartExtractNatives
    \/ BuildVanillaStyleArgs
    \/ BuildNeoForgeArgs
    \/ UnsupportedLoader
    \/ \E m \in Modes : SpawnReturned(m)
    \/ \E m \in Modes : Spawn(m)
    \/ \E m \in Modes : EmitStarted(m)
    \/ \E m \in Modes : StartReaders(m)
    \/ \E m \in Modes : StartWaiter(m)
    \/ \E m \in Modes : GraceWindow(m)
    \/ \E m \in Modes, s \in Streams : ProcessWrite(m, s)
    \/ \E m \in Modes : ProcessExit(m)
    \/ \E m \in Modes, s \in Streams : ReadLine(m, s)
    \/ \E m \in Modes : WaitReturns(m)
    \/ \E m \in Modes : AnalyzeLog(m)
    \/ \E m \in Modes : EmitStopped(m)

SpecLaunch == InitLauncher /\ [][NextLaunch]_vars

\* The runtime runs every spawned task and the caller's own steps; only the
\* game decides when it writes and when it exits.
LaunchFairness ==
    \A m \in Modes :
        /\ WF_vars(EmitStarted(m))
        /\ WF_vars(StartReaders(m))
        /\ WF_vars(StartWaiter(m))
        /\ WF_vars(WaitReturns(m))
        /\ WF_vars(AnalyzeLog(m))
        /\ WF_vars(EmitStopped(m))

SpecLaunchFair == SpecLaunch /\ LaunchFairness

\* One call of build_args_from_version_json.
InitAssembler == InitAsm /\ DownloadIdle /\ MergeIdle /\ RulesIdle /\ LaunchIdle /\ LoaderIdle /\ InstallIdle

NextAssembler ==
    \/ BuildClasspath
    \/ ExtractNatives
    \/ SubstituteVars
    \/ FilterJvmArgs
    \/ Assemble

SpecAssembler == InitAssembler /\ [][NextAssembler]_vars
\* A loader installer picking the build to install.
InitLoaders ==
    InitLoader /\ DownloadIdle /\ MergeIdle /\ RulesIdle /\ LaunchIdle /\ AsmIdle
               /\ InstallIdle

NextLoaders ==
    \/ GetLoaderVersions
    \/ FabricSelect
    \/ QuiltSelect
    \/ DownloadLoader
    \/ GetLatestStableForMc

SpecLoaders == InitLoaders /\ [][NextLoaders]_vars

\* Two commands that create or update profiles and install them, and the
\* launches of the profiles.
InitInstaller ==
    InitInstall /\ DownloadIdle /\ MergeIdle /\ RulesIdle /\ LaunchIdle /\ AsmIdle
                /\ LoaderIdle

NextInstall ==
    \/ \E r \in Runs : GetUniqueId(r)
    \/ \E r \in Runs : CreateProfileDir(r)
    \/ \E r \in Runs : Persist(r)
    \/ \E r \in Runs : GetVersionDetails(r)
    \/ \E r \in Runs : DownloadClient(r)
    \/ \E r \in Runs : DownloadLibraries(r)
    \/ \E r \in Runs : DownloadAssets(r)
    \/ \E r \in Runs : SaveVersionJson(r)
    \/ \E r \in Runs : MatchLoader(r)
    \/ \E r \in Runs : InstallNeoForge(r)
    \/ \E r \in Runs : FetchPlan(r)
    \/ \E r \in Runs : CreateProfileInternal(r)
    \/ \E r \in Runs : InstallBundle(r)
    \/ \E r \in Runs : UpdateProfileState(r)
    \/ \E r \in Runs : LaunchProfile(r)

SpecInstall == InitInstaller /\ [][NextInstall]_vars

====
